---------------------------- MODULE Spec2Model ----------------------------
(***************************************************************************)
(* Sabueso Feliz: veterinary clinic management (Django).                   *)
(*                                                                         *)
(* The model follows Core/views.py and Core/models.py.  The database rows  *)
(* the views read and write are the state; every view is one action that   *)
(* carries out the whole request, including the transaction it opens.      *)
(* A primary key or foreign key that is None in the program is 0 here.     *)
(***************************************************************************)
EXTENDS Integers, Sequences, FiniteSets, TLC

-----------------------------------------------------------------------------
(* Bounds of the model *)

\* largest stock an administrator types into the inventory form
MaxStock == 2
\* largest quantity a veterinarian types for one drug
MaxCantidad == 2
\* longest sequence of requests that is followed
MaxPeticiones == 3
\* longest sequence of appointment administration requests that is followed
MaxGestiones == 2
\* how many transactions the two workers serve
MaxTransacciones == 2

-----------------------------------------------------------------------------
(* Populations *)

SucursalIds == {1, 2}
UserIds == 1 .. 9
PacienteIds == {1, 2}
CitaIds == {1, 2, 3}
FarmacoIds == {1, 2}
HistorialIds == {1, 2, 3}
Textos == {"t1"}

Roles == {"ADMIN", "VET", "ADMIN_OP", "OWNER"}
Estados == {"pendiente", "programada", "atendida", "cancelada"}

Usuario(rol, sucursal, super) ==
  [rol |-> rol, sucursal_id |-> sucursal, is_superuser |-> super, activo |-> TRUE,
   is_active |-> TRUE]

\* the accounts of the clinic: a superuser, branch administrators, front
\* desk, veterinarians of both branches, two pet owners and an
\* administrator who has no branch yet
UsuariosIniciales ==
  <<Usuario("ADMIN", 0, TRUE),
    Usuario("ADMIN", 1, FALSE),
    Usuario("ADMIN_OP", 2, FALSE),
    Usuario("VET", 1, FALSE),
    Usuario("VET", 1, FALSE),
    Usuario("VET", 2, FALSE),
    Usuario("OWNER", 0, FALSE),
    Usuario("OWNER", 0, FALSE),
    Usuario("ADMIN", 0, FALSE)>>

VARIABLES
  usuarios,        \* User rows: id -> [rol, sucursal_id, is_superuser, activo]
  pacientes,       \* Paciente rows: id -> [propietario] (the owner's user id)
  propietarios,    \* Propietario rows: set of [id, user]
  citas,           \* Cita rows: id -> [paciente, sucursal, veterinario, estado, fecha_hora, fecha_solicitada]
  farmacos,        \* Farmaco rows: id -> [sucursal, stock]
  farmaco_seq,     \* last primary key given to a Farmaco
  cita_farmacos,   \* CitaFarmaco rows: set of [cita, farmaco, cantidad]
  historiales,     \* HistorialMedico rows: set of [id, cita, paciente, veterinario, texto]
  historial_seq,   \* last primary key given to a HistorialMedico
  resp,            \* what the last request answered
  peticiones,      \* how many requests have been served
  tx,              \* the atender_cita transactions in flight, one per worker
  bloqueos,        \* row locks on Farmaco: id -> worker holding it (0: nobody)
  filtro           \* one call of _filtrar_por_sucursal: its arguments and result

personas == <<usuarios, pacientes, propietarios>>
farmacia == <<farmacos, farmaco_seq, cita_farmacos>>
clinica == <<citas, historiales, historial_seq>>
aparte == <<tx, bloqueos, filtro>>
vars == <<usuarios, pacientes, propietarios, citas, farmacos, farmaco_seq, cita_farmacos,
          historiales, historial_seq, resp, peticiones, tx, bloqueos, filtro>>

\* what a view answers: the view, the outcome and, when the request was
\* carried out (status "ok"), who asked, for which row, and the entries that
\* were recorded; a refusal carries none of these
Respuesta(op, status) ==
  [op |-> op, status |-> status, user |-> 0, cita |-> 0, paciente |-> 0,
   utilizo |-> FALSE, entradas |-> <<>>]

Hecho(op, u, cid) ==
  [op |-> op, status |-> "ok", user |-> u, cita |-> cid, paciente |-> 0,
   utilizo |-> FALSE, entradas |-> <<>>]

\* the answer to a request that looked an appointment up: who asked, for which
Buscada(op, status, u, cid) ==
  [op |-> op, status |-> status, user |-> u, cita |-> cid, paciente |-> 0,
   utilizo |-> FALSE, entradas |-> <<>>]

\* a page that shows the data of a pet, of one of its appointments or records
Mostrado(op, u, paciente) ==
  [op |-> op, status |-> "ok", user |-> u, cita |-> 0, paciente |-> paciente,
   utilizo |-> FALSE, entradas |-> <<>>]

RespuestaAtender(status, u, cid, utilizo, entradas) ==
  IF status # "ok" THEN Respuesta("atender_cita", status)
  ELSE [op |-> "atender_cita", status |-> "ok", user |-> u, cita |-> cid,
        paciente |-> 0, utilizo |-> utilizo,
        entradas |-> IF utilizo THEN entradas ELSE <<>>]

\* one more request is served
Contar == peticiones < MaxPeticiones /\ peticiones' = peticiones + 1

\* a request that runs alone, from its first line to its response
Peticion == Contar /\ UNCHANGED aparte

-----------------------------------------------------------------------------
(* Branch scoping helpers, Core/views.py *)

\* a branch restriction that only binds veterinarians
RolesSoloVeterinario == {"VET"}

\* _roles_con_sucursal
RolesConSucursal == {"ADMIN", "ADMIN_OP", "VET"}

\* a filter that lets a user without a branch see every row
FiltrarSalvoSinSucursal(rows, user) ==
  IF user.is_superuser THEN rows
  ELSE IF user.rol \notin RolesConSucursal THEN rows
  ELSE IF user.sucursal_id = 0 THEN rows
  ELSE {r \in rows : r.sucursal = user.sucursal_id}

\* _filtrar_por_sucursal: rows is a set of records with a "sucursal" field
FiltrarPorSucursal(rows, user) ==
  IF user.is_superuser THEN rows
  ELSE IF user.rol \notin RolesConSucursal THEN rows
  ELSE IF user.sucursal_id = 0 THEN {}
  ELSE {r \in rows : r.sucursal = user.sucursal_id}

UsuarioPuedeGestionarSucursal(user, sucursal_id) ==
  IF user.is_superuser THEN TRUE
  ELSE IF user.rol \notin RolesConSucursal THEN FALSE
  ELSE sucursal_id # 0 /\ sucursal_id = user.sucursal_id

SucursalesParaUsuario(user) ==
  IF user.is_superuser THEN SucursalIds
  ELSE IF user.sucursal_id # 0 THEN {s \in SucursalIds : s = user.sucursal_id}
  ELSE {}

-----------------------------------------------------------------------------
(* Rows and small queries *)

\* a CitaFarmaco row
Administracion(cid, fid, cantidad) ==
  [cita |-> cid, farmaco |-> fid, cantidad |-> cantidad]

\* CitaFarmaco.objects.filter(cita=cita)
AdministracionesDe(rows, cid) == {r \in rows : r.cita = cid}

\* {admin.farmaco_id: admin for admin in ...}: a dict keyed by drug id
Existentes(rows, cid) ==
  [f \in {r.farmaco : r \in AdministracionesDe(rows, cid)} |->
     (CHOOSE r \in AdministracionesDe(rows, cid) : r.farmaco = f).cantidad]

\* dict.get(key, 0)
Get(map, key) == IF key \in DOMAIN map THEN map[key] ELSE 0

\* Farmaco.objects.filter(id=fid, sucursal=sucursal).update(stock=F("stock") - delta)
AjustarStock(tabla, fid, sucursal, delta) ==
  IF fid \in DOMAIN tabla /\ tabla[fid].sucursal = sucursal
  THEN [tabla EXCEPT ![fid].stock = @ - delta]
  ELSE tabla

\* HistorialMedico.objects.update_or_create(cita=cita, defaults=...)
HistorialDeCita(tabla, cid) == {h \in tabla : h.cita = cid}

\* an INSERT that never looks for the row of the appointment
CrearHistorial(tabla, seq, cid, paciente, veterinario, texto) ==
  tabla \cup {[id |-> seq + 1, cita |-> cid, paciente |-> paciente,
               veterinario |-> veterinario, texto |-> texto]}

UpdateOrCreateHistorial(tabla, seq, cid, paciente, veterinario, texto) ==
  IF HistorialDeCita(tabla, cid) # {}
  THEN {IF h.cita = cid
        THEN [h EXCEPT !.paciente = paciente, !.veterinario = veterinario,
                       !.texto = texto]
        ELSE h : h \in tabla}
  ELSE tabla \cup {[id |-> seq + 1, cita |-> cid, paciente |-> paciente,
                    veterinario |-> veterinario, texto |-> texto]}

-----------------------------------------------------------------------------
(* atender_cita: the submitted drug selection *)

\* one "farmacos_utilizados" value: legible is FALSE when it has no "::" or a
\* part that int() rejects
Entrada(legible, fid, cantidad) ==
  [legible |-> legible, id |-> fid, cantidad |-> cantidad]

EntradasPosibles ==
  {Entrada(FALSE, 0, 0)} \cup
  {Entrada(TRUE, f, q) : f \in FarmacoIds, q \in 0 .. MaxCantidad}

\* the submissions followed carry no entry, one entry or two entries
Selecciones ==
  {<<>>} \cup {<<a>> : a \in EntradasPosibles}
         \cup {<<a, b>> : a \in EntradasPosibles, b \in EntradasPosibles}

EntradaAceptada(e) == e.legible /\ e.cantidad > 0

\* seleccion_post: the (farmaco_id, cantidad) pairs that were kept
SeleccionPost(entradas) == SelectSeq(entradas, EntradaAceptada)

\* a validation that only asks for some entry when utilizo_farmacos is set
SoloSeleccionVacia(utilizo, entradas) ==
  utilizo /\ entradas = <<>>

\* mensajes_error is not empty
HayMensajesError(utilizo, entradas) ==
  \/ \E i \in 1 .. Len(entradas) : ~EntradaAceptada(entradas[i])
  \/ utilizo /\ SeleccionPost(entradas) = <<>>

\* nuevos_map = {fid: cantidad for fid, cantidad in seleccion_post}
PrimeraPosicion(sel, f) ==
  CHOOSE i \in 1 .. Len(sel) :
    /\ sel[i].id = f
    /\ \A j \in 1 .. Len(sel) : sel[j].id = f => i <= j

\* a dict that keeps the first entry of a repeated drug
NuevosMapPrimeraEntrada(sel) ==
  [f \in {sel[i].id : i \in 1 .. Len(sel)} |-> sel[PrimeraPosicion(sel, f)].cantidad]

UltimaPosicion(sel, f) ==
  CHOOSE i \in 1 .. Len(sel) :
    /\ sel[i].id = f
    /\ \A j \in 1 .. Len(sel) : sel[j].id = f => j <= i

NuevosMap(sel) ==
  [f \in {sel[i].id : i \in 1 .. Len(sel)} |-> sel[UltimaPosicion(sel, f)].cantidad]

-----------------------------------------------------------------------------
(* atender_cita: the transaction *)

\* the rows a transaction reads and writes
BaseDeDatos ==
  [farmacos |-> farmacos, cita_farmacos |-> cita_farmacos, citas |-> citas,
   historiales |-> historiales, historial_seq |-> historial_seq]

RECURSIVE AjustarStocks(_, _, _, _, _)
\* the second loop over ids_para_bloquear: one UPDATE per drug whose delta is not 0
AjustarStocks(tabla, ids, sucursal, existentes, nuevos) ==
  IF ids = {} THEN tabla
  ELSE LET fid == CHOOSE f \in ids : TRUE
           delta == Get(nuevos, fid) - Get(existentes, fid)
           ajustada == IF delta # 0
                       THEN AjustarStock(tabla, fid, sucursal, delta)
                       ELSE tabla
       IN AjustarStocks(ajustada, ids \ {fid}, sucursal, existentes, nuevos)

RECURSIVE DevolverStocks(_, _, _)
\* the loop over registros_previos: the recorded quantity goes back to the stock
DevolverStocks(tabla, registros, sucursal) ==
  IF registros = {} THEN tabla
  ELSE LET r == CHOOSE x \in registros : TRUE
       IN DevolverStocks(AjustarStock(tabla, r.farmaco, sucursal, -r.cantidad),
                         registros \ {r}, sucursal)

\* a stock check that compares with the new quantity of one unit less
StockInsuficienteCorto(tabla, ids, existentes, nuevos) ==
  \E fid \in ids :
    LET delta == Get(nuevos, fid) - Get(existentes, fid)
    IN delta > 0 /\ tabla[fid].stock < delta - 1

\* the first loop over ids_para_bloquear raises "Stock insuficiente"
StockInsuficiente(tabla, ids, existentes, nuevos) ==
  \E fid \in ids :
    LET delta == Get(nuevos, fid) - Get(existentes, fid)
    IN delta > 0 /\ tabla[fid].stock < delta

\* the CitaFarmaco rows after the create / update / delete loops
RegistrarAdministraciones(rows, cid, nuevos) ==
  (rows \ AdministracionesDe(rows, cid))
    \cup {Administracion(cid, f, nuevos[f]) : f \in DOMAIN nuevos}

\* the body of "with transaction.atomic()": the rows as they are when the
\* block ends, and the ValueError it raised ("" when it raised none)
CuerpoTransaccion(db, u, cid, utilizo, sel, texto) ==
  LET cita == db.citas[cid]
      conHistorial ==
        [db EXCEPT
           !.historiales = UpdateOrCreateHistorial(db.historiales, db.historial_seq,
                                                   cid, cita.paciente, u, texto),
           !.historial_seq = IF HistorialDeCita(db.historiales, cid) = {}
                             THEN @ + 1 ELSE @,
           !.citas = [db.citas EXCEPT ![cid].estado = "atendida"]]
      existentes == Existentes(db.cita_farmacos, cid)
      nuevos == NuevosMap(sel)
      ids_para_bloquear == DOMAIN existentes \cup DOMAIN nuevos
      farmacos_map == {f \in ids_para_bloquear :
                         /\ f \in DOMAIN db.farmacos
                         /\ db.farmacos[f].sucursal = cita.sucursal}
      faltantes == ids_para_bloquear \ farmacos_map
  IN IF utilizo
     THEN IF faltantes # {}
          THEN [error |-> "fuera_de_inventario", db |-> conHistorial]
          ELSE IF StockInsuficiente(db.farmacos, ids_para_bloquear, existentes, nuevos)
          THEN [error |-> "stock_insuficiente", db |-> conHistorial]
          ELSE [error |-> "",
                db |-> [conHistorial EXCEPT
                          !.farmacos = AjustarStocks(db.farmacos, ids_para_bloquear,
                                                     cita.sucursal, existentes, nuevos),
                          !.cita_farmacos =
                             RegistrarAdministraciones(db.cita_farmacos, cid, nuevos)]]
     ELSE [error |-> "",
           db |-> [conHistorial EXCEPT
                     !.farmacos = DevolverStocks(db.farmacos,
                                     AdministracionesDe(db.cita_farmacos, cid),
                                     cita.sucursal),
                     !.cita_farmacos = db.cita_farmacos
                                         \ AdministracionesDe(db.cita_farmacos, cid)]]

\* a block that is not atomic: what it wrote before raising stays
SinTransaccion(antes, resultado) == resultado.db

\* transaction.atomic(): the block's writes are kept when it ends normally and
\* rolled back when it raises
TransactionAtomic(antes, resultado) ==
  IF resultado.error # "" THEN antes ELSE resultado.db

Escribir(db) ==
  /\ farmacos' = db.farmacos
  /\ cita_farmacos' = db.cita_farmacos
  /\ citas' = db.citas
  /\ historiales' = db.historiales
  /\ historial_seq' = db.historial_seq

-----------------------------------------------------------------------------
(* atender_cita: the view *)

\* the POST of a veterinarian who passed the permission checks
AtenderCitaPost(u, cid, utilizo, entradas, texto) ==
  /\ HistorialDeCita(historiales, cid) # {} \/ historial_seq + 1 \in HistorialIds
  /\ IF HayMensajesError(utilizo, entradas)
     THEN /\ resp' = Respuesta("atender_cita", "seleccion_invalida")
          /\ UNCHANGED <<farmacos, cita_farmacos, clinica>>
     ELSE LET resultado == CuerpoTransaccion(BaseDeDatos, u, cid, utilizo,
                                             SeleccionPost(entradas), texto)
          IN /\ Escribir(TransactionAtomic(BaseDeDatos, resultado))
             /\ resp' = RespuestaAtender(
                          IF resultado.error # "" THEN resultado.error ELSE "ok",
                          u, cid, utilizo, entradas)
  /\ UNCHANGED <<personas, farmaco_seq>>

\* the permission checks that precede the form
AtenderCitaRechazo(u, cid) ==
  IF cid \notin DOMAIN citas THEN "404"
  ELSE IF usuarios[u].rol # "VET" THEN "sin_permiso"
  ELSE IF ~UsuarioPuedeGestionarSucursal(usuarios[u], citas[cid].sucursal)
  THEN "otra_sucursal"
  ELSE IF citas[cid].veterinario # 0 /\ citas[cid].veterinario # u
  THEN "otro_profesional"
  ELSE ""

AtenderCita(u, cid) ==
  /\ Peticion
  /\ IF AtenderCitaRechazo(u, cid) # ""
     THEN /\ resp' = Respuesta("atender_cita", AtenderCitaRechazo(u, cid))
          /\ UNCHANGED <<personas, farmacia, clinica>>
     ELSE \/ /\ resp' = Respuesta("atender_cita", "formulario")
             /\ UNCHANGED <<personas, farmacia, clinica>>
          \/ \E utilizo \in BOOLEAN, entradas \in Selecciones, texto \in Textos :
               AtenderCitaPost(u, cid, utilizo, entradas, texto)

-----------------------------------------------------------------------------
(* inventario_farmacos_admin *)

\* the POSTed FarmacoForm, as far as sucursal and stock go: sucursal 0 is a
\* blank or unknown choice (nombre, categoria and descripcion are taken to
\* validate)
FormulariosFarmaco ==
  [sucursal : {0} \cup SucursalIds, stock : -1 .. MaxStock]

\* a form that offers every branch to every administrator
TodasLasSucursales(user) == SucursalIds

\* sucursales_para_formulario
SucursalesParaFormulario(user) ==
  IF user.is_superuser THEN SucursalIds ELSE SucursalesParaUsuario(user)

\* FarmacoForm.is_valid(): the sucursal field only accepts the queryset given
\* to the form, and stock is a PositiveIntegerField
FarmacoFormValido(form, sucursales) ==
  /\ form.sucursal \in sucursales
  /\ form.stock >= 0

\* on_delete=PROTECT of CitaFarmaco.farmaco
FarmacoProtegido(fid) == \E r \in cita_farmacos : r.farmaco = fid

\* what is left of a table when a row is deleted
SinFila(tabla, id) == [x \in DOMAIN tabla \ {id} |-> tabla[x]]

InventarioCrear(u, form) ==
  IF FarmacoFormValido(form, SucursalesParaFormulario(usuarios[u]))
  THEN /\ farmaco_seq + 1 \in FarmacoIds
       /\ farmaco_seq' = farmaco_seq + 1
       /\ farmacos' = [x \in DOMAIN farmacos \cup {farmaco_seq + 1} |->
                         IF x = farmaco_seq + 1
                         THEN [sucursal |-> form.sucursal, stock |-> form.stock]
                         ELSE farmacos[x]]
       /\ resp' = Hecho("inventario_crear", u, 0)
       /\ UNCHANGED <<personas, cita_farmacos, clinica>>
  ELSE /\ resp' = Respuesta("inventario_crear", "formulario_invalido")
       /\ UNCHANGED <<personas, farmacia, clinica>>

InventarioActualizar(u, fid, form) ==
  IF fid \notin DOMAIN farmacos
  THEN /\ resp' = Respuesta("inventario_actualizar", "404")
       /\ UNCHANGED <<personas, farmacia, clinica>>
  ELSE IF ~UsuarioPuedeGestionarSucursal(usuarios[u], farmacos[fid].sucursal)
  THEN /\ resp' = Respuesta("inventario_actualizar", "otra_sucursal")
       /\ UNCHANGED <<personas, farmacia, clinica>>
  ELSE IF FarmacoFormValido(form, SucursalesParaFormulario(usuarios[u]))
  THEN /\ farmacos' = [farmacos EXCEPT
                         ![fid] = [sucursal |-> form.sucursal, stock |-> form.stock]]
       /\ resp' = Hecho("inventario_actualizar", u, 0)
       /\ UNCHANGED <<personas, farmaco_seq, cita_farmacos, clinica>>
  ELSE /\ resp' = Respuesta("inventario_actualizar", "formulario_invalido")
       /\ UNCHANGED <<personas, farmacia, clinica>>

InventarioEliminar(u, fid) ==
  IF fid \notin DOMAIN farmacos
  THEN /\ resp' = Respuesta("inventario_eliminar", "404")
       /\ UNCHANGED <<personas, farmacia, clinica>>
  ELSE IF ~UsuarioPuedeGestionarSucursal(usuarios[u], farmacos[fid].sucursal)
  THEN /\ resp' = Respuesta("inventario_eliminar", "otra_sucursal")
       /\ UNCHANGED <<personas, farmacia, clinica>>
  ELSE IF FarmacoProtegido(fid)
  THEN /\ resp' = Respuesta("inventario_eliminar", "500")
       /\ UNCHANGED <<personas, farmacia, clinica>>
  ELSE /\ farmacos' = SinFila(farmacos, fid)
       /\ resp' = Hecho("inventario_eliminar", u, 0)
       /\ UNCHANGED <<personas, farmaco_seq, cita_farmacos, clinica>>

\* the checks that precede the POST: the role, and the ?sucursal= parameter
InventarioRechazo(u, sucursal_param) ==
  IF usuarios[u].rol # "ADMIN" /\ ~usuarios[u].is_superuser THEN "sin_permiso"
  ELSE IF /\ sucursal_param \in SucursalIds
          /\ ~UsuarioPuedeGestionarSucursal(usuarios[u], sucursal_param)
  THEN "otra_sucursal"
  ELSE ""

InventarioFarmacosAdmin(u, sucursal_param) ==
  /\ Peticion
  /\ IF InventarioRechazo(u, sucursal_param) # ""
     THEN /\ resp' = Respuesta("inventario", InventarioRechazo(u, sucursal_param))
          /\ UNCHANGED <<personas, farmacia, clinica>>
     ELSE \/ /\ resp' = Respuesta("inventario", "listado")
             /\ UNCHANGED <<personas, farmacia, clinica>>
          \/ \E form \in FormulariosFarmaco : InventarioCrear(u, form)
          \/ \E fid \in FarmacoIds, form \in FormulariosFarmaco :
               InventarioActualizar(u, fid, form)
          \/ \E fid \in FarmacoIds : InventarioEliminar(u, fid)
          \/ /\ resp' = Respuesta("inventario", "accion_no_reconocida")
             /\ UNCHANGED <<personas, farmacia, clinica>>

-----------------------------------------------------------------------------
(* The clinic at the start, and the pharmacy specification *)

SinFecha == [fecha |-> 0, hora |-> 0]

\* the two workers that serve requests at the same time
Trabajadores == {1, 2}

\* a worker with no transaction open
SinTx ==
  [pc |-> "libre", user |-> 0, cita |-> 0, utilizo |-> FALSE, nuevos |-> <<>>,
   texto |-> "", existentes |-> <<>>, leidos |-> <<>>]

\* no call of _filtrar_por_sucursal is being followed
SinFiltro == [user |-> Usuario("OWNER", 0, FALSE), rows |-> {}, resultado |-> {},
              hecho |-> FALSE]

Cita(paciente, sucursal, veterinario, estado, fecha_hora, fecha_solicitada) ==
  [paciente |-> paciente, sucursal |-> sucursal, veterinario |-> veterinario,
   estado |-> estado, fecha_hora |-> fecha_hora,
   fecha_solicitada |-> fecha_solicitada]

\* the profiles of the two pet owners
PropietariosIniciales == {[id |-> 1, user |-> 7], [id |-> 2, user |-> 8]}

\* the rows of the clinic at the start
InitDatos ==
  /\ pacientes = <<[propietario |-> 7], [propietario |-> 8]>>
  /\ propietarios = PropietariosIniciales
  /\ citas = <<Cita(1, 1, 4, "programada", [fecha |-> 1, hora |-> 1], 1),
               Cita(2, 2, 0, "pendiente", SinFecha, 1)>>
  /\ farmacos = <<[sucursal |-> 1, stock |-> MaxStock]>>
  /\ farmaco_seq = 1
  /\ cita_farmacos = {}
  /\ historiales = {}
  /\ historial_seq = 0
  /\ resp = Respuesta("", "")
  /\ peticiones = 0

InitFilas == usuarios = UsuariosIniciales /\ InitDatos

\* no transaction is open and no row is locked
InitSinTx ==
  /\ tx = [t \in Trabajadores |-> SinTx]
  /\ bloqueos = [f \in FarmacoIds |-> 0]

Init == InitFilas /\ InitSinTx /\ filtro = SinFiltro

Next ==
  \/ \E u \in UserIds, cid \in {0} \cup CitaIds : AtenderCita(u, cid)
  \/ \E u \in UserIds, s \in {0} \cup SucursalIds : InventarioFarmacosAdmin(u, s)

Spec == Init /\ [][Next]_vars

\* atender_cita alone
NextAtender == \E u \in UserIds, cid \in {0} \cup CitaIds : AtenderCita(u, cid)

SpecAtender == Init /\ [][NextAtender]_vars

-----------------------------------------------------------------------------
(* Stock bookkeeping of atender_cita *)

RECURSIVE SumaCantidades(_)
SumaCantidades(rows) ==
  IF rows = {} THEN 0
  ELSE LET r == CHOOSE x \in rows : TRUE
       IN r.cantidad + SumaCantidades(rows \ {r})

StockDe(tabla, f) == IF f \in DOMAIN tabla THEN tabla[f].stock ELSE 0

\* stock(f) plus every quantity recorded for f
TotalFarmaco(f) ==
  StockDe(farmacos, f) + SumaCantidades({r \in cita_farmacos : r.farmaco = f})

\* C1: every atender_cita request, accepted or rejected, leaves
\* stock(f) + (sum of cantidad over the CitaFarmaco rows of f) as it was,
\* for every drug f.
C1_ConservacionStock ==
  [][resp'.op = "atender_cita" =>
       \A f \in FarmacoIds : TotalFarmaco(f)' = TotalFarmaco(f)]_vars

\* the quantity the last entry for drug f asks for, 0 when no entry names f
CantidadPedida(entradas, f) ==
  IF \E i \in 1 .. Len(entradas) : entradas[i].id = f
  THEN LET ultimo == CHOOSE i \in 1 .. Len(entradas) :
                       /\ entradas[i].id = f
                       /\ \A j \in (i + 1) .. Len(entradas) : entradas[j].id # f
       IN entradas[ultimo].cantidad
  ELSE 0

\* the quantity recorded for drug f on appointment cid, 0 when there is no row
CantidadRegistrada(rows, cid, f) ==
  SumaCantidades({r \in rows : r.cita = cid /\ r.farmaco = f})

\* C2: a successful submission with utilizo_farmacos and selection S lowers
\* the stock of every drug of S or of the previous records by S[f] minus the
\* quantity recorded before, and leaves the appointment with exactly the rows
\* (f, S[f]), f in S.
C2_DeltaPostcondicion ==
  [][(resp'.op = "atender_cita" /\ resp'.status = "ok" /\ resp'.utilizo) =>
       LET cid == resp'.cita
           entradas == resp'.entradas
       IN /\ \A f \in FarmacoIds :
               (CantidadPedida(entradas, f) > 0
                  \/ CantidadRegistrada(cita_farmacos, cid, f) > 0) =>
                 /\ f \in DOMAIN farmacos /\ f \in DOMAIN farmacos'
                 /\ farmacos'[f].stock =
                      farmacos[f].stock
                        - (CantidadPedida(entradas, f)
                             - CantidadRegistrada(cita_farmacos, cid, f))
          /\ AdministracionesDe(cita_farmacos', cid) =
               {Administracion(cid, f, CantidadPedida(entradas, f)) :
                  f \in {g \in FarmacoIds : CantidadPedida(entradas, g) > 0}}]_vars

\* a committed submission that names one drug twice, with two quantities
C2_Witness ==
  /\ resp.op = "atender_cita" /\ resp.status = "ok" /\ resp.utilizo
  /\ Len(resp.entradas) = 2
  /\ resp.entradas[1].id = resp.entradas[2].id
  /\ resp.entradas[1].cantidad # resp.entradas[2].cantidad
  /\ Administracion(resp.cita, resp.entradas[2].id, resp.entradas[2].cantidad)
       \in cita_farmacos

\* C3: no stock is ever negative; a committed submission never asked for
\* more than the stock held (delta > 0 implies stock >= delta), and the
\* submission refused at the stock check answers "Stock insuficiente" and
\* changes neither stock nor CitaFarmaco rows.
C3_StockNoNegativo ==
  /\ [](\A f \in DOMAIN farmacos : farmacos[f].stock >= 0)
  /\ [][(resp'.op = "atender_cita" /\ resp'.status = "ok" /\ resp'.utilizo) =>
          \A f \in FarmacoIds :
            LET delta == CantidadPedida(resp'.entradas, f)
                           - CantidadRegistrada(cita_farmacos, resp'.cita, f)
            IN delta > 0 => StockDe(farmacos, f) >= delta]_vars
  /\ [][(resp'.op = "atender_cita" /\ resp'.status = "stock_insuficiente") =>
          UNCHANGED <<farmacos, cita_farmacos>>]_vars

\* a submission refused for lack of stock while a drug is short
C3_Witness ==
  /\ resp.op = "atender_cita" /\ resp.status = "stock_insuficiente"
  /\ \E f \in DOMAIN farmacos : farmacos[f].stock < MaxCantidad

\* C4: a submission that fails inside the transaction (insufficient stock, or
\* a drug outside the inventory of the appointment's branch) leaves every
\* Farmaco, CitaFarmaco, HistorialMedico and Cita row as it was.
C4_TodoONada ==
  [][(resp'.op = "atender_cita"
        /\ resp'.status \in {"stock_insuficiente", "fuera_de_inventario"}) =>
       UNCHANGED <<farmacos, cita_farmacos, historiales, historial_seq, citas>>]_vars

\* C13: a committed atender_cita submission without utilizo_farmacos, for an
\* appointment that has drugs recorded, adds every recorded quantity back to
\* the stock of its drug and deletes the CitaFarmaco rows of the appointment,
\* whatever the inventory administration did since they were written, so
\* that stock(f) + recorded usage of f stays as it was for every drug f.
C13_IdaYVuelta ==
  [][(resp'.op = "atender_cita" /\ resp'.status = "ok" /\ ~resp'.utilizo
        /\ AdministracionesDe(cita_farmacos, resp'.cita) # {}) =>
       LET cid == resp'.cita
       IN /\ AdministracionesDe(cita_farmacos', cid) = {}
          /\ \A f \in FarmacoIds :
               /\ StockDe(farmacos', f) =
                    StockDe(farmacos, f) + CantidadRegistrada(cita_farmacos, cid, f)
               /\ TotalFarmaco(f)' = TotalFarmaco(f)]_vars

\* a submission the validation loop has to turn down: an entry that is not
\* "<id>::<quantity>" with integer parts, an entry with a quantity <= 0, or
\* utilizo_farmacos with no entry left
SeleccionRechazable(utilizo, entradas) ==
  \/ \E i \in 1 .. Len(entradas) :
       ~entradas[i].legible \/ entradas[i].cantidad <= 0
  \/ /\ utilizo
     /\ \A i \in 1 .. Len(entradas) :
          ~entradas[i].legible \/ entradas[i].cantidad <= 0

\* C14: a step of atender_cita that serves a POST with such a submission
\* reports the error and writes nothing: no HistorialMedico is created or
\* updated, no appointment changes, and no stock or CitaFarmaco row changes.
\* Put the other way round: a step that does not do so serves no such POST.
C14_ValidacionAntesDeEscribir ==
  [][resp'.op = "atender_cita" =>
       \/ /\ resp'.status = "seleccion_invalida"
          /\ UNCHANGED <<farmacos, cita_farmacos, historiales, historial_seq,
                         citas>>
       \/ \A u \in UserIds, cid \in DOMAIN citas :
            AtenderCitaRechazo(u, cid) = "" =>
              \A utilizo \in BOOLEAN, entradas \in Selecciones, texto \in Textos :
                ~(/\ SeleccionRechazable(utilizo, entradas)
                  /\ AtenderCitaPost(u, cid, utilizo, entradas, texto))]_vars

\* an appointment completed with a drug, and then a submission for it that
\* was turned down: the record, the row and the stock are those of before
C14_Witness ==
  /\ resp.op = "atender_cita" /\ resp.status = "seleccion_invalida"
  /\ cita_farmacos # {}
  /\ historiales # {}

\* a first submission that failed: no record was written and no appointment
\* became attended
C4_Witness ==
  /\ resp.op = "atender_cita"
  /\ resp.status \in {"stock_insuficiente", "fuera_de_inventario"}
  /\ historiales = {}
  /\ \A c \in DOMAIN citas : citas[c].estado # "atendida"

\* the drug of a CitaFarmaco row is in the inventory of the row's appointment
EnInventarioDeLaCita(r) ==
  /\ r.farmaco \in DOMAIN farmacos
  /\ farmacos[r.farmaco].sucursal = citas[r.cita].sucursal

\* C15: in every state reached through atender_cita and the inventory
\* administration, every CitaFarmaco row names a Farmaco of the branch of the
\* row's appointment; and atender_cita commits a submission with drugs only
\* when every drug it selects, and every drug already recorded for the
\* appointment, is in the inventory of the appointment's branch.
C15_FarmacosEnSucursal ==
  /\ [](\A r \in cita_farmacos : EnInventarioDeLaCita(r))
  /\ [][(resp'.op = "atender_cita" /\ resp'.status = "ok" /\ resp'.utilizo) =>
         \A f \in FarmacoIds :
           (CantidadPedida(resp'.entradas, f) > 0
              \/ CantidadRegistrada(cita_farmacos, resp'.cita, f) > 0) =>
             /\ f \in DOMAIN farmacos
             /\ farmacos[f].sucursal = citas[resp'.cita].sucursal]_vars

-----------------------------------------------------------------------------
(* Inventory administration stays in the administrator's branch *)

InventarioOps ==
  {"inventario", "inventario_crear", "inventario_actualizar", "inventario_eliminar"}

\* C10: an inventory request changes a Farmaco only when an ADMIN or a
\* superuser sent it; when the sender is not a superuser, every Farmaco of
\* another branch is left as it was and every Farmaco created or changed ends
\* in the sender's own branch.
C10_InventarioPorSucursal ==
  [][resp'.op \in InventarioOps =>
       IF resp'.status # "ok"
       THEN UNCHANGED <<farmacos, farmaco_seq>>
       ELSE LET u == usuarios[resp'.user]
            IN /\ u.rol = "ADMIN" \/ u.is_superuser
               /\ ~u.is_superuser =>
                    /\ u.sucursal_id # 0
                    /\ \A f \in DOMAIN farmacos :
                         farmacos[f].sucursal # u.sucursal_id =>
                           f \in DOMAIN farmacos' /\ farmacos'[f] = farmacos[f]
                    /\ \A f \in DOMAIN farmacos' :
                         (f \notin DOMAIN farmacos \/ farmacos'[f] # farmacos[f]) =>
                           farmacos'[f].sucursal = u.sucursal_id]_vars

\* a branch administrator changed the inventory while another branch holds a drug
C10_Witness ==
  /\ resp.op \in {"inventario_crear", "inventario_actualizar"} /\ resp.status = "ok"
  /\ ~usuarios[resp.user].is_superuser
  /\ \E f \in DOMAIN farmacos : farmacos[f].sucursal # usuarios[resp.user].sucursal_id

-----------------------------------------------------------------------------
(* _filtrar_por_sucursal applied to any queryset by any user *)

FilaIds == {1, 2, 3}

\* the querysets: rows with a primary key and a branch (0: no branch)
Querysets ==
  UNION {{{[id |-> i, sucursal |-> f[i]] : i \in S} :
            f \in [S -> {0} \cup SucursalIds]} : S \in SUBSET FilaIds}

\* the users: every rol, with or without a branch, superuser or not
Perfiles ==
  {Usuario(rol, sucursal, super) :
     rol \in Roles, sucursal \in {0} \cup SucursalIds, super \in BOOLEAN}

InitFiltro ==
  /\ InitFilas /\ InitSinTx
  /\ \E user \in Perfiles, rows \in Querysets :
       filtro = [user |-> user, rows |-> rows, resultado |-> {}, hecho |-> FALSE]

Filtrar ==
  /\ ~filtro.hecho
  /\ filtro' = [filtro EXCEPT
                  !.resultado = FiltrarPorSucursal(filtro.rows, filtro.user),
                  !.hecho = TRUE]
  /\ UNCHANGED <<personas, farmacia, clinica, resp, peticiones, tx, bloqueos>>

NextFiltro == Filtrar

SpecFiltro == InitFiltro /\ [][NextFiltro]_vars

\* C6: _filtrar_por_sucursal returns the whole queryset to a superuser; to a
\* non-superuser ADMIN, ADMIN_OP or VET exactly the rows of the user's branch,
\* and nothing when the user has no branch; to a non-superuser of another rol
\* the whole queryset.  A non-superuser ADMIN, ADMIN_OP or VET never gets a row
\* of a branch that is not their own.
C6_FiltroPorSucursal ==
  filtro.hecho =>
    LET u == filtro.user
        personal == u.rol \in {"ADMIN", "ADMIN_OP", "VET"}
    IN /\ u.is_superuser => filtro.resultado = filtro.rows
       /\ (~u.is_superuser /\ personal /\ u.sucursal_id # 0) =>
            filtro.resultado = {r \in filtro.rows : r.sucursal = u.sucursal_id}
       /\ (~u.is_superuser /\ personal /\ u.sucursal_id = 0) =>
            filtro.resultado = {}
       /\ (~u.is_superuser /\ ~personal) => filtro.resultado = filtro.rows
       /\ (~u.is_superuser /\ personal) =>
            \A r \in filtro.resultado : r.sucursal = u.sucursal_id

\* a veterinarian of a branch filtered a queryset that holds rows of both
\* branches and got some rows, not all
C6_Witness ==
  /\ filtro.hecho
  /\ filtro.user.rol = "VET" /\ ~filtro.user.is_superuser
  /\ filtro.user.sucursal_id # 0
  /\ {r.sucursal : r \in filtro.rows} = SucursalIds
  /\ filtro.resultado # {} /\ filtro.resultado # filtro.rows

-----------------------------------------------------------------------------
(* Appointment administration: listar_citas_admin, asignar_veterinario_cita *)
(* and asignar_veterinario_citas                                            *)

Fechas == {1, 2}
Horas == {1, 2}

\* the datetimes: a date and a time of day
Instantes == [fecha : Fechas, hora : Horas]

\* a < b on datetimes
Anterior(a, b) == a.fecha < b.fecha \/ (a.fecha = b.fecha /\ a.hora < b.hora)

\* a posted "fecha" or "hora": blank, text that strptime rejects, or a value
Campo(estado, valor) == [estado |-> estado, valor |-> valor]

CamposFecha ==
  {Campo("vacio", 0), Campo("ilegible", 0)} \cup {Campo("valido", f) : f \in Fechas}

CamposHora ==
  {Campo("vacio", 0), Campo("ilegible", 0)} \cup {Campo("valido", h) : h \in Horas}

\* Cita.objects.all() as rows with a primary key
FilasCitas == {[id |-> c, sucursal |-> citas[c].sucursal, estado |-> citas[c].estado] :
                 c \in DOMAIN citas}

\* get_object_or_404(queryset, id=cid) finds a row
Encontrada(rows, cid) == \E r \in rows : r.id = cid

\* the veterinarians of a branch, whether their accounts are in use or not
VeterinariosDeLaSucursal(sucursal) ==
  {v \in DOMAIN usuarios :
     usuarios[v].rol = "VET" /\ usuarios[v].sucursal_id = sucursal}

\* _veterinarios_activos(sucursal)
VeterinariosActivos(sucursal) ==
  {v \in DOMAIN usuarios :
     /\ usuarios[v].rol = "VET" /\ usuarios[v].activo /\ usuarios[v].is_active
     /\ usuarios[v].sucursal_id = sucursal}

\* the part the two assignment views share, from strptime to cita.save():
\* the posted fields are not blank
ProgramarCita(op, u, cid, vet_id, fecha, hora, ahora) ==
  IF fecha.estado # "valido" \/ hora.estado # "valido"
  THEN /\ resp' = Buscada(op, "formato_invalido", u, cid)
       /\ UNCHANGED <<personas, farmacia, clinica>>
  ELSE LET fecha_hora == [fecha |-> fecha.valor, hora |-> hora.valor]
       IN IF Anterior(fecha_hora, ahora)
          THEN /\ resp' = Buscada(op, "en_el_pasado", u, cid)
               /\ UNCHANGED <<personas, farmacia, clinica>>
          ELSE IF vet_id \notin VeterinariosActivos(citas[cid].sucursal)
          THEN /\ resp' = Buscada(op, "404_veterinario", u, cid)
               /\ UNCHANGED <<personas, farmacia, clinica>>
          ELSE /\ citas' = [citas EXCEPT ![cid].veterinario = vet_id,
                                         ![cid].fecha_hora = fecha_hora,
                                         ![cid].fecha_solicitada = fecha.valor,
                                         ![cid].estado = "programada"]
               /\ resp' = Buscada(op, "ok", u, cid)
               /\ UNCHANGED <<personas, farmacia, historiales, historial_seq>>

\* the users a post names as veterinarian: the veterinarians of both
\* branches and an account that is none
Postulados == {1, 4, 5, 6}

\* timezone.now() as the views read it: before every hour that can be
\* posted, or after all but the last
Relojes == {[fecha |-> 1, hora |-> 1], [fecha |-> 2, hora |-> 2]}

\* the posts whose fields are filled in: the veterinarian, the date and the
\* time as typed, and the clock of the server, which is only read once both
\* fields are legible; the veterinarian is only looked up when the hour is
\* not in the past
PostsCompletos ==
  {p \in [vet_id : Postulados, fecha : CamposFecha, hora : CamposHora,
          ahora : Relojes] :
     /\ p.fecha.estado # "vacio" /\ p.hora.estado # "vacio"
     /\ (p.fecha.estado = "ilegible" \/ p.hora.estado = "ilegible") =>
          /\ p.ahora = [fecha |-> 1, hora |-> 1]
          /\ p.vet_id = 1
          /\ p.fecha.estado = "ilegible" /\ p.hora.estado = "ilegible"
     /\ (p.fecha.estado = "valido" /\ p.hora.estado = "valido"
          /\ Anterior([fecha |-> p.fecha.valor, hora |-> p.hora.valor], p.ahora)) =>
          p.vet_id = 1}

AsignarVeterinarioCita(u, cid) ==
  /\ Peticion
  /\ IF usuarios[u].rol \notin {"ADMIN", "ADMIN_OP"}
     THEN /\ resp' = Respuesta("asignar_veterinario_cita", "sin_permiso")
          /\ UNCHANGED <<personas, farmacia, clinica>>
     ELSE IF ~Encontrada(FiltrarPorSucursal(FilasCitas, usuarios[u]), cid)
     THEN /\ resp' = Buscada("asignar_veterinario_cita", "404", u, cid)
          /\ UNCHANGED <<personas, farmacia, clinica>>
     ELSE \/ /\ resp' = Buscada("asignar_veterinario_cita", "formulario", u, cid)
             /\ UNCHANGED <<personas, farmacia, clinica>>
          \/ /\ resp' = Buscada("asignar_veterinario_cita", "falta_veterinario",
                                 u, cid)
             /\ UNCHANGED <<personas, farmacia, clinica>>
          \/ /\ resp' = Buscada("asignar_veterinario_cita", "falta_fecha", u, cid)
             /\ UNCHANGED <<personas, farmacia, clinica>>
          \/ \E p \in PostsCompletos :
               ProgramarCita("asignar_veterinario_cita", u, cid, p.vet_id,
                             p.fecha, p.hora, p.ahora)

AsignarVeterinarioCitas(u) ==
  /\ Peticion
  /\ IF usuarios[u].rol \notin {"ADMIN", "ADMIN_OP"}
     THEN /\ resp' = Respuesta("asignar_veterinario_citas", "sin_permiso")
          /\ UNCHANGED <<personas, farmacia, clinica>>
     ELSE \/ /\ resp' = Respuesta("asignar_veterinario_citas", "formulario")
             /\ UNCHANGED <<personas, farmacia, clinica>>
          \/ /\ resp' = Respuesta("asignar_veterinario_citas",
                                   "falta_cita_o_veterinario")
             /\ UNCHANGED <<personas, farmacia, clinica>>
          \/ /\ resp' = Respuesta("asignar_veterinario_citas", "falta_fecha")
             /\ UNCHANGED <<personas, farmacia, clinica>>
          \/ \E cid \in CitaIds :
               IF ~Encontrada(
                     FiltrarPorSucursal(
                       {r \in FilasCitas : r.estado \in {"pendiente", "programada"}},
                       usuarios[u]),
                     cid)
               THEN /\ resp' = Buscada("asignar_veterinario_citas", "404", u, cid)
                    /\ UNCHANGED <<personas, farmacia, clinica>>
               ELSE \E p \in PostsCompletos :
                      ProgramarCita("asignar_veterinario_citas", u, cid, p.vet_id,
                                    p.fecha, p.hora, p.ahora)

\* the POST actions of listar_citas_admin on the appointment that was found
CitaCancelar(u, cid) ==
  IF citas[cid].estado = "cancelada"
  THEN /\ resp' = Buscada("listar_citas_admin", "ya_cancelada", u, cid)
       /\ UNCHANGED <<personas, farmacia, clinica>>
  ELSE /\ citas' = [citas EXCEPT ![cid].estado = "cancelada"]
       /\ resp' = Buscada("listar_citas_admin", "ok", u, cid)
       /\ UNCHANGED <<personas, farmacia, historiales, historial_seq>>

\* a 'marcar_atendida' that stamps the clock over the hour already agreed
CitaMarcarAtendidaAhora(u, cid, ahora) ==
  IF citas[cid].estado = "atendida"
  THEN /\ resp' = Buscada("listar_citas_admin", "ya_atendida", u, cid)
       /\ UNCHANGED <<personas, farmacia, clinica>>
  ELSE /\ citas' = [citas EXCEPT ![cid].estado = "atendida",
                                 ![cid].fecha_hora = ahora]
       /\ resp' = Buscada("listar_citas_admin", "ok", u, cid)
       /\ UNCHANGED <<personas, farmacia, historiales, historial_seq>>

CitaMarcarAtendida(u, cid, ahora) ==
  IF citas[cid].estado = "atendida"
  THEN /\ resp' = Buscada("listar_citas_admin", "ya_atendida", u, cid)
       /\ UNCHANGED <<personas, farmacia, clinica>>
  ELSE /\ citas' = [citas EXCEPT
                      ![cid].estado = "atendida",
                      ![cid].fecha_hora = IF @ = SinFecha THEN ahora ELSE @]
       /\ resp' = Buscada("listar_citas_admin", "ok", u, cid)
       /\ UNCHANGED <<personas, farmacia, historiales, historial_seq>>

\* a reopening that also drops the drug usage recorded for the appointment
CitaReactivarBorrando(u, cid) ==
  /\ citas' = [citas EXCEPT ![cid].estado = "pendiente",
                            ![cid].fecha_hora = SinFecha,
                            ![cid].veterinario = 0]
  /\ cita_farmacos' = cita_farmacos \ AdministracionesDe(cita_farmacos, cid)
  /\ resp' = Buscada("listar_citas_admin", "ok", u, cid)
  /\ UNCHANGED <<personas, farmacos, farmaco_seq, historiales, historial_seq>>

\* a reopening that forgets to clear the appointment
CitaReactivarSoloEstado(u, cid) ==
  /\ citas' = [citas EXCEPT ![cid].estado = "pendiente"]
  /\ resp' = Buscada("listar_citas_admin", "ok", u, cid)
  /\ UNCHANGED <<personas, farmacia, historiales, historial_seq>>

CitaReactivar(u, cid) ==
  /\ citas' = [citas EXCEPT ![cid].estado = "pendiente",
                            ![cid].fecha_hora = SinFecha,
                            ![cid].veterinario = 0]
  /\ resp' = Buscada("listar_citas_admin", "ok", u, cid)
  /\ UNCHANGED <<personas, farmacia, historiales, historial_seq>>

ListarCitasAdmin(u) ==
  /\ Peticion
  /\ IF usuarios[u].rol \notin {"ADMIN", "ADMIN_OP"}
     THEN /\ resp' = Respuesta("listar_citas_admin", "sin_permiso")
          /\ UNCHANGED <<personas, farmacia, clinica>>
     ELSE \/ /\ resp' = Respuesta("listar_citas_admin", "listado")
             /\ UNCHANGED <<personas, farmacia, clinica>>
          \/ \E cid \in {0} \cup CitaIds :
               IF cid = 0
               THEN /\ resp' = Respuesta("listar_citas_admin", "falta_cita")
                    /\ UNCHANGED <<personas, farmacia, clinica>>
               ELSE IF ~Encontrada(FiltrarPorSucursal(FilasCitas, usuarios[u]), cid)
               THEN /\ resp' = Buscada("listar_citas_admin", "404", u, cid)
                    /\ UNCHANGED <<personas, farmacia, clinica>>
               ELSE \/ CitaCancelar(u, cid)
                    \/ \E ahora \in Relojes : CitaMarcarAtendida(u, cid, ahora)
                    \/ CitaReactivar(u, cid)
                    \/ /\ resp' = Buscada("listar_citas_admin",
                                           "accion_no_reconocida", u, cid)
                       /\ UNCHANGED <<personas, farmacia, clinica>>

NextCitas ==
  /\ peticiones < MaxGestiones
  /\ \/ \E u \in UserIds : ListarCitasAdmin(u)
     \/ \E u \in UserIds, cid \in {0} \cup CitaIds : AsignarVeterinarioCita(u, cid)
     \/ \E u \in UserIds : AsignarVeterinarioCitas(u)

SpecCitas == Init /\ [][NextCitas]_vars

\* the same clinic when the account of the second veterinarian of branch 1
\* may have been put out of use, through either flag
InitAsignacion ==
  /\ \E activo \in BOOLEAN, is_active \in BOOLEAN :
       usuarios = [UsuariosIniciales EXCEPT ![5].activo = activo,
                                           ![5].is_active = is_active]
  /\ InitDatos
  /\ InitSinTx
  /\ filtro = SinFiltro

SpecAsignacion == InitAsignacion /\ [][NextCitas]_vars

Asignaciones == {"asignar_veterinario_cita", "asignar_veterinario_citas"}

C22_CicloDeVidaAdmin ==
  [][resp'.op = "listar_citas_admin" =>
       LET u == resp'.user
           cid == resp'.cita
       IN IF cid \notin DOMAIN citas \/ resp'.status \notin {"ok", "ya_cancelada",
                                                             "ya_atendida"}
          THEN UNCHANGED citas
          ELSE /\ \A c \in DOMAIN citas : c # cid => citas'[c] = citas[c]
               /\ CitaCancelar(u, cid) =>
                    citas' = IF citas[cid].estado = "cancelada" THEN citas
                             ELSE [citas EXCEPT ![cid].estado = "cancelada"]
               /\ \A ahora \in Relojes :
                    CitaMarcarAtendida(u, cid, ahora) =>
                      citas' =
                        IF citas[cid].estado = "atendida" THEN citas
                        ELSE IF citas[cid].fecha_hora = SinFecha
                        THEN [citas EXCEPT ![cid].estado = "atendida",
                                           ![cid].fecha_hora = ahora]
                        ELSE [citas EXCEPT ![cid].estado = "atendida"]
               /\ CitaReactivar(u, cid) =>
                    citas' = [citas EXCEPT ![cid].estado = "pendiente",
                                           ![cid].fecha_hora = SinFecha,
                                           ![cid].veterinario = 0]
               /\ \/ CitaCancelar(u, cid)
                  \/ \E ahora \in Relojes : CitaMarcarAtendida(u, cid, ahora)
                  \/ CitaReactivar(u, cid)]_vars

\* the appointment that had an hour was marked attended and kept it, after
\* the one that had none was marked attended and got the clock
C22_Witness ==
  /\ resp.op = "listar_citas_admin" /\ resp.status = "ok" /\ resp.cita = 1
  /\ citas[1].estado = "atendida"
  /\ citas[1].fecha_hora = [fecha |-> 1, hora |-> 1]
  /\ citas[2].estado = "atendida" /\ citas[2].fecha_hora = [fecha |-> 2, hora |-> 2]

\* C19: an assignment through either view makes an appointment 'programada'
\* only when it is 'pendiente' or 'programada': no step takes an appointment
\* from 'atendida' or 'cancelada' to 'programada'; such an appointment has
\* to be reopened first, which leaves it 'pendiente'.
C19_SoloCitasAbiertas ==
  [][\A c \in DOMAIN citas :
       citas[c].estado \in {"atendida", "cancelada"} =>
         citas'[c].estado # "programada"]_vars

CitasAdminOps ==
  {"listar_citas_admin", "asignar_veterinario_cita", "asignar_veterinario_citas"}

\* C7: a request to listar_citas_admin, asignar_veterinario_cita or
\* asignar_veterinario_citas changes an appointment only when an ADMIN or
\* ADMIN_OP sent it; when the sender is not a superuser the sender has a
\* branch and every appointment of another branch keeps its estado,
\* veterinario, fecha_hora and fecha_solicitada; and the request of a
\* non-superuser that looks up an appointment of another branch answers 404.
C7_CitasPorSucursal ==
  /\ [][resp'.op \in CitasAdminOps =>
          IF resp'.status # "ok"
          THEN UNCHANGED citas
          ELSE LET u == usuarios[resp'.user]
               IN /\ u.rol \in {"ADMIN", "ADMIN_OP"}
                  /\ ~u.is_superuser =>
                       /\ u.sucursal_id # 0
                       /\ \A c \in DOMAIN citas :
                            citas[c].sucursal # u.sucursal_id =>
                              citas'[c] = citas[c]]_vars
  /\ [](( /\ resp.op \in CitasAdminOps
          /\ resp.user # 0
          /\ resp.cita \in DOMAIN citas
          /\ ~usuarios[resp.user].is_superuser
          /\ citas[resp.cita].sucursal # usuarios[resp.user].sucursal_id )
        => resp.status = "404")

\* a branch administrator who cancelled an appointment of the own branch asks
\* for an appointment of the other branch and gets 404
C7_Witness ==
  /\ resp.op \in CitasAdminOps /\ resp.status = "404"
  /\ resp.user # 0 /\ resp.cita \in DOMAIN citas
  /\ ~usuarios[resp.user].is_superuser
  /\ usuarios[resp.user].sucursal_id # 0
  /\ citas[resp.cita].sucursal # usuarios[resp.user].sucursal_id
  /\ \E c \in DOMAIN citas :
       /\ citas[c].sucursal = usuarios[resp.user].sucursal_id
       /\ citas[c].estado = "cancelada"

-----------------------------------------------------------------------------
(* Medical records: registrar_historial, and the detail pages *)

\* the POST of registrar_historial
RegistrarHistorialPost(u, pid, cita_asociada, texto) ==
  /\ historial_seq + 1 \in HistorialIds
     \/ (cita_asociada # 0 /\ HistorialDeCita(historiales, cita_asociada) # {})
  /\ IF cita_asociada # 0
     THEN /\ historiales' = UpdateOrCreateHistorial(historiales, historial_seq,
                                                    cita_asociada, pid, u, texto)
          /\ historial_seq' = IF HistorialDeCita(historiales, cita_asociada) = {}
                              THEN historial_seq + 1 ELSE historial_seq
          /\ citas' = [citas EXCEPT ![cita_asociada].estado = "atendida"]
     ELSE /\ historiales' = historiales \cup
                              {[id |-> historial_seq + 1, cita |-> 0,
                                paciente |-> pid, veterinario |-> u,
                                texto |-> texto]}
          /\ historial_seq' = historial_seq + 1
          /\ UNCHANGED citas
  /\ resp' = Buscada("registrar_historial", "ok", u, cita_asociada)
  /\ UNCHANGED <<personas, farmacia>>

RegistrarHistorial(u, pid, cita_param) ==
  /\ Peticion
  /\ IF pid \notin DOMAIN pacientes
     THEN /\ resp' = Respuesta("registrar_historial", "404")
          /\ UNCHANGED <<personas, farmacia, clinica>>
     ELSE IF usuarios[u].rol # "VET"
     THEN /\ resp' = Respuesta("registrar_historial", "sin_permiso")
          /\ UNCHANGED <<personas, farmacia, clinica>>
     ELSE LET cita_asociada ==
                IF cita_param \in DOMAIN citas /\ citas[cita_param].paciente = pid
                THEN cita_param ELSE 0
          IN \/ /\ resp' = Respuesta("registrar_historial", "formulario")
                /\ UNCHANGED <<personas, farmacia, clinica>>
             \/ \E texto \in Textos :
                  RegistrarHistorialPost(u, pid, cita_asociada, texto)

DetalleMascota(u, pid) ==
  /\ Peticion
  /\ resp' = IF pid \notin DOMAIN pacientes
             THEN Respuesta("detalle_mascota", "404")
             ELSE IF usuarios[u].rol = "OWNER" /\ pacientes[pid].propietario # u
             THEN Respuesta("detalle_mascota", "sin_permiso")
             ELSE Mostrado("detalle_mascota", u, pid)
  /\ UNCHANGED <<personas, farmacia, clinica>>

DetalleCita(u, cid) ==
  /\ Peticion
  /\ resp' = IF ~Encontrada(IF usuarios[u].rol \in {"ADMIN", "ADMIN_OP"}
                            THEN FiltrarPorSucursal(FilasCitas, usuarios[u])
                            ELSE FilasCitas,
                            cid)
             THEN Respuesta("detalle_cita", "404")
             ELSE IF /\ usuarios[u].rol = "OWNER"
                     /\ pacientes[citas[cid].paciente].propietario # u
             THEN Respuesta("detalle_cita", "sin_permiso")
             ELSE IF /\ usuarios[u].rol \in {"ADMIN", "ADMIN_OP"}
                     /\ ~UsuarioPuedeGestionarSucursal(usuarios[u], citas[cid].sucursal)
             THEN Respuesta("detalle_cita", "otra_sucursal")
             ELSE Mostrado("detalle_cita", u, citas[cid].paciente)
  /\ UNCHANGED <<personas, farmacia, clinica>>

DetalleHistorial(u, hid) ==
  /\ Peticion
  /\ resp' = IF \A h \in historiales : h.id # hid
             THEN Respuesta("detalle_historial", "404")
             ELSE Mostrado("detalle_historial", u,
                           (CHOOSE h \in historiales : h.id = hid).paciente)
  /\ UNCHANGED <<personas, farmacia, clinica>>

NextHistorial ==
  \/ \E u \in UserIds, cid \in {0} \cup CitaIds : AtenderCita(u, cid)
  \/ \E u \in UserIds, pid \in {0} \cup PacienteIds, cid \in {0} \cup CitaIds :
       RegistrarHistorial(u, pid, cid)
  \/ \E u \in UserIds, pid \in {0} \cup PacienteIds : DetalleMascota(u, pid)
  \/ \E u \in UserIds, cid \in {0} \cup CitaIds : DetalleCita(u, cid)
  \/ \E u \in UserIds, hid \in HistorialIds : DetalleHistorial(u, hid)

SpecHistorial == Init /\ [][NextHistorial]_vars

\* C8: a request of a non-superuser veterinarian to atender_cita or
\* registrar_historial leaves every appointment of another branch, and every
\* appointment assigned to another professional, as it was, together with the
\* HistorialMedico linked to it; a request that is refused changes none.
C8_SoloCitasPropias ==
  [][resp'.op \in {"atender_cita", "registrar_historial"} =>
       IF resp'.status # "ok"
       THEN UNCHANGED <<citas, historiales>>
       ELSE LET u == resp'.user
            IN (usuarios[u].rol = "VET" /\ ~usuarios[u].is_superuser) =>
                 \A c \in DOMAIN citas :
                   (\/ citas[c].sucursal # usuarios[u].sucursal_id
                    \/ citas[c].veterinario \notin {0, u}) =>
                     /\ citas'[c] = citas[c]
                     /\ HistorialDeCita(historiales', c)
                          = HistorialDeCita(historiales, c)]_vars

\* C9: a detail page (detalle_mascota, detalle_cita, detalle_historial) shown
\* to a user with rol OWNER is about a pet of that user.
C9_AislamientoPropietario ==
  (/\ resp.op \in {"detalle_mascota", "detalle_cita", "detalle_historial"}
   /\ resp.status = "ok"
   /\ usuarios[resp.user].rol = "OWNER")
    => pacientes[resp.paciente].propietario = resp.user

-----------------------------------------------------------------------------
(* atender_cita served by two workers at once, for two appointments *)

\* a plain SELECT: it locks no row
NingunaFila(filas) == {}

\* select_for_update(): the rows the SELECT returns are locked until the
\* transaction ends
FilasBloqueadas(filas) == filas

\* no other worker holds a lock on these Farmaco rows
Libres(t, filas) == \A f \in filas : bloqueos[f] \in {0, t}

\* the end of a transaction releases its locks
Liberar(t) == [f \in FarmacoIds |-> IF bloqueos[f] = t THEN 0 ELSE bloqueos[f]]

\* the view up to "with transaction.atomic()" and the first statements of the
\* block: the submission passed the permission checks and the parsing, and
\* the CitaFarmaco rows of the appointment are read (and locked)
TxAbrir(t, u, cid, utilizo, entradas, texto) ==
  /\ ~HayMensajesError(utilizo, entradas)
  /\ tx' = [tx EXCEPT ![t] =
              [pc |-> "abierta", user |-> u, cita |-> cid, utilizo |-> utilizo,
               nuevos |-> IF utilizo THEN NuevosMap(SeleccionPost(entradas))
                          ELSE <<>>,
               texto |-> texto,
               existentes |-> Existentes(cita_farmacos, cid),
               leidos |-> <<>>]]
  /\ UNCHANGED <<personas, farmacia, clinica, resp, bloqueos, filtro>>

\* a worker takes a submission for an appointment no other worker is serving
TxAtenderCita(t, u, cid) ==
  /\ peticiones < MaxTransacciones
  /\ Contar
  /\ tx[t].pc = "libre"
  /\ \A o \in Trabajadores \ {t} : tx[o].pc # "libre" => tx[o].cita # cid
  /\ AtenderCitaRechazo(u, cid) = ""
  /\ \E utilizo \in BOOLEAN, entradas \in Selecciones, texto \in Textos :
       TxAbrir(t, u, cid, utilizo, entradas, texto)

\* Farmaco.objects.select_for_update().filter(sucursal=..., id__in=...): the
\* statement waits until the rows are free, locks them and reads them
TxBloquear(t) ==
  /\ tx[t].pc = "abierta" /\ tx[t].utilizo
  /\ LET ids_para_bloquear == DOMAIN tx[t].existentes \cup DOMAIN tx[t].nuevos
         filas == {f \in ids_para_bloquear :
                     /\ f \in DOMAIN farmacos
                     /\ farmacos[f].sucursal = citas[tx[t].cita].sucursal}
     IN /\ Libres(t, FilasBloqueadas(filas))
        /\ bloqueos' = [f \in FarmacoIds |->
                          IF f \in FilasBloqueadas(filas) THEN t ELSE bloqueos[f]]
        /\ tx' = [tx EXCEPT ![t].pc = "leida",
                            ![t].leidos = [f \in filas |-> farmacos[f]]]
  /\ UNCHANGED <<personas, farmacia, clinica, resp, peticiones, filtro>>

\* the rest of the block and its end: the checks on the rows read, the
\* UPDATEs (each waits for the row it writes), the CitaFarmaco rows, and the
\* commit; or the ValueError and the rollback
TxConfirmar(t) ==
  /\ tx[t].pc = IF tx[t].utilizo THEN "leida" ELSE "abierta"
  /\ LET cid == tx[t].cita
         sucursal == citas[cid].sucursal
         existentes == tx[t].existentes
         nuevos == tx[t].nuevos
         ids_para_bloquear == DOMAIN existentes \cup DOMAIN nuevos
         faltantes == ids_para_bloquear \ DOMAIN tx[t].leidos
         error == IF ~tx[t].utilizo THEN ""
                  ELSE IF faltantes # {} THEN "fuera_de_inventario"
                  ELSE IF StockInsuficiente(tx[t].leidos, ids_para_bloquear,
                                            existentes, nuevos)
                  THEN "stock_insuficiente"
                  ELSE ""
     IN IF error # ""
        THEN /\ resp' = Respuesta("atender_cita", error)
             /\ UNCHANGED <<farmacia, clinica>>
        ELSE /\ Libres(t, {f \in ids_para_bloquear :
                              Get(nuevos, f) # Get(existentes, f)})
             /\ farmacos' =
                  IF tx[t].utilizo
                  THEN AjustarStocks(farmacos, ids_para_bloquear, sucursal,
                                     existentes, nuevos)
                  ELSE DevolverStocks(farmacos,
                                      AdministracionesDe(cita_farmacos, cid),
                                      sucursal)
             /\ cita_farmacos' = RegistrarAdministraciones(cita_farmacos, cid, nuevos)
             /\ historiales' = UpdateOrCreateHistorial(
                                 historiales, historial_seq, cid,
                                 citas[cid].paciente, tx[t].user, tx[t].texto)
             /\ historial_seq' = IF HistorialDeCita(historiales, cid) = {}
                                 THEN historial_seq + 1 ELSE historial_seq
             /\ citas' = [citas EXCEPT ![cid].estado = "atendida"]
             /\ resp' = Hecho("atender_cita", tx[t].user, cid)
             /\ UNCHANGED farmaco_seq
  /\ tx' = [tx EXCEPT ![t] = SinTx]
  /\ bloqueos' = Liberar(t)
  /\ UNCHANGED <<personas, peticiones, filtro>>

\* two appointments of one branch, and a drug of that branch with any stock
InitConc ==
  /\ usuarios = UsuariosIniciales
  /\ pacientes = <<[propietario |-> 7], [propietario |-> 8]>>
  /\ propietarios = PropietariosIniciales
  /\ citas = <<Cita(1, 1, 4, "programada", [fecha |-> 1, hora |-> 1], 1),
               Cita(2, 1, 0, "pendiente", SinFecha, 1)>>
  /\ \E s \in 0 .. MaxStock :
       farmacos = <<[sucursal |-> 1, stock |-> s],
                    [sucursal |-> 1, stock |-> MaxStock]>>
  /\ farmaco_seq = 2
  /\ cita_farmacos = {}
  /\ historiales = {}
  /\ historial_seq = 0
  /\ resp = Respuesta("", "")
  /\ peticiones = 0
  /\ InitSinTx
  /\ filtro = SinFiltro

NextConc ==
  \E t \in Trabajadores :
    \/ \E u \in UserIds, cid \in CitaIds : TxAtenderCita(t, u, cid)
    \/ TxBloquear(t)
    \/ TxConfirmar(t)

SpecConc == InitConc /\ [][NextConc]_vars

\* what worker t's transaction takes from the stock of drug f
DeltaTx(t, f) == Get(tx[t].nuevos, f) - Get(tx[t].existentes, f)

\* C5: with two atender_cita transactions in flight for two appointments of
\* one branch, no stock is ever negative; a transaction that commits found
\* the rows it read unchanged, held at least its positive delta of each drug,
\* and lowers each stock by exactly its delta, whatever the other
\* transaction did; and stock plus recorded quantities stays the same, so no
\* deduction disappears.
C5_SinActualizacionPerdida ==
  /\ [](\A f \in DOMAIN farmacos : farmacos[f].stock >= 0)
  /\ [][\A t \in Trabajadores :
          (tx[t].pc # "libre" /\ tx'[t].pc = "libre" /\ resp'.status = "ok") =>
            /\ \A f \in DOMAIN tx[t].leidos : tx[t].leidos[f] = farmacos[f]
            /\ \A f \in DOMAIN farmacos :
                 /\ farmacos'[f].stock = farmacos[f].stock - DeltaTx(t, f)
                 /\ DeltaTx(t, f) > 0 => farmacos[f].stock >= DeltaTx(t, f)]_vars
  /\ [][\A f \in FarmacoIds : TotalFarmaco(f)' = TotalFarmaco(f)]_vars

\* one worker holds the lock on a drug it takes from, the other worker has a
\* transaction open for another appointment that takes from the same drug,
\* and the stock does not cover both
C5_Witness ==
  \E f \in DOMAIN farmacos :
    /\ tx[1].pc = "leida" /\ bloqueos[f] = 1
    /\ tx[2].pc = "abierta" /\ tx[2].utilizo
    /\ tx[1].cita # tx[2].cita
    /\ DeltaTx(1, f) > 0 /\ DeltaTx(2, f) > 0
    /\ farmacos[f].stock < DeltaTx(1, f) + DeltaTx(2, f)

-----------------------------------------------------------------------------
(* atender_cita and registrar_historial served at once for one appointment *)

\* a write that does not wait for the transaction that holds the rows
SinEsperarCita(t, cid) == TRUE

\* update_or_create(cita=cita) and cita.save() write the HistorialMedico row
\* of the appointment and the Cita row: they wait while another transaction
\* that wrote them is still open
CitaLibre(t, cid) ==
  \A o \in Trabajadores \ {t} :
    ~(tx[o].cita = cid /\ tx[o].pc \in {"abierta", "leida"})

\* a worker takes a submission that passed the permission checks and the
\* parsing; the transaction has not begun
TxRecibir(t, u, cid) ==
  /\ peticiones < MaxTransacciones
  /\ Contar
  /\ tx[t].pc = "libre"
  /\ AtenderCitaRechazo(u, cid) = ""
  /\ \E utilizo \in BOOLEAN, entradas \in Selecciones, texto \in Textos :
       /\ ~HayMensajesError(utilizo, entradas)
       /\ tx' = [tx EXCEPT ![t] =
                   [pc |-> "recibida", user |-> u, cita |-> cid,
                    utilizo |-> utilizo,
                    nuevos |-> IF utilizo THEN NuevosMap(SeleccionPost(entradas))
                               ELSE <<>>,
                    texto |-> texto, existentes |-> <<>>, leidos |-> <<>>]]
  /\ UNCHANGED <<personas, farmacia, clinica, resp, bloqueos, filtro>>

\* the first statements of the block: update_or_create, cita.save() and the
\* SELECT ... FOR UPDATE of the CitaFarmaco rows of the appointment
TxHistorial(t) ==
  /\ tx[t].pc = "recibida"
  /\ CitaLibre(t, tx[t].cita)
  /\ tx' = [tx EXCEPT ![t].pc = "abierta",
                      ![t].existentes = Existentes(cita_farmacos, tx[t].cita)]
  /\ UNCHANGED <<personas, farmacia, clinica, resp, peticiones, bloqueos, filtro>>

\* registrar_historial while transactions are open: its update_or_create
\* waits for the transaction that wrote the record of the appointment
RegistrarHistorialALaVez(u, pid, cita_param) ==
  /\ peticiones < MaxTransacciones
  /\ CitaLibre(0, cita_param)
  /\ RegistrarHistorial(u, pid, cita_param)

NextDoble ==
  \/ \E t \in Trabajadores :
       \/ \E u \in UserIds, cid \in CitaIds : TxRecibir(t, u, cid)
       \/ TxHistorial(t)
       \/ TxBloquear(t)
       \/ TxConfirmar(t)
  \/ \E u \in UserIds, pid \in PacienteIds, cid \in {0} \cup CitaIds :
       RegistrarHistorialALaVez(u, pid, cid)

\* one open appointment that either veterinarian of its branch may complete,
\* and two drugs of that branch
InitDoble ==
  /\ usuarios = UsuariosIniciales
  /\ pacientes = <<[propietario |-> 7], [propietario |-> 8]>>
  /\ propietarios = PropietariosIniciales
  /\ citas = <<Cita(1, 1, 0, "pendiente", SinFecha, 1)>>
  /\ farmacos = <<[sucursal |-> 1, stock |-> MaxStock],
                  [sucursal |-> 1, stock |-> MaxStock]>>
  /\ farmaco_seq = 2
  /\ cita_farmacos = {}
  /\ historiales = {}
  /\ historial_seq = 0
  /\ resp = Respuesta("", "")
  /\ peticiones = 0
  /\ InitSinTx
  /\ filtro = SinFiltro

SpecDoble == InitDoble /\ [][NextDoble]_vars

\* C11: whatever atender_cita and registrar_historial submissions were served
\* for an appointment, one after another or at once, no appointment has more
\* than one HistorialMedico row nor more than one CitaFarmaco row for a drug,
\* and the appointment of a committed submission has exactly one record.
FilasPorFarmaco(cid, f) == {r \in cita_farmacos : r.cita = cid /\ r.farmaco = f}

C11_UnicidadTrasRepetir ==
  /\ \A cid \in DOMAIN citas :
       /\ Cardinality(HistorialDeCita(historiales, cid)) <= 1
       /\ \A f \in FarmacoIds : Cardinality(FilasPorFarmaco(cid, f)) <= 1
  /\ (resp.op \in {"atender_cita", "registrar_historial"}
        /\ resp.status = "ok" /\ resp.cita # 0)
       => Cardinality(HistorialDeCita(historiales, resp.cita)) = 1

\* an appointment completed with drugs through atender_cita and then sent
\* again through registrar_historial by another veterinarian, while a third
\* submission for it is waiting: its only record is the one just rewritten
C11_Witness ==
  /\ resp.op = "registrar_historial" /\ resp.status = "ok" /\ resp.cita # 0
  /\ AdministracionesDe(cita_farmacos, resp.cita) # {}
  /\ \E h \in historiales :
       /\ HistorialDeCita(historiales, resp.cita) = {h}
       /\ h.veterinario = resp.user

\* the rows a committed selection leaves on an appointment
FilasDe(cid, nuevos) == {Administracion(cid, f, nuevos[f]) : f \in DOMAIN nuevos}

\* C16: when atender_cita submissions for one appointment are served at once,
\* the same selection S twice among them, every commit leaves the appointment
\* with exactly one CitaFarmaco row per drug of its selection, and in every
\* state each stock is lower than at the start by exactly the quantities
\* recorded: S[f] is taken from the stock once, however the two interleave.
C16_SinDobleDescuento ==
  /\ [](\A f \in FarmacoIds : TotalFarmaco(f) = MaxStock)
  /\ [][\A t \in Trabajadores :
          (tx[t].pc = "leida" /\ tx'[t].pc = "libre" /\ resp'.status = "ok") =>
            /\ AdministracionesDe(cita_farmacos', tx[t].cita) =
                 FilasDe(tx[t].cita, tx[t].nuevos)
            /\ \A f \in DOMAIN tx[t].nuevos :
                 Cardinality({r \in cita_farmacos' :
                                r.cita = tx[t].cita /\ r.farmaco = f}) = 1]_vars

\* the same selection sent twice for the same appointment: one request has
\* committed its rows, the other has read them and holds the stock rows
C16_Witness ==
  \E t \in Trabajadores :
    /\ tx[t].pc = "leida"
    /\ tx[t].nuevos # <<>>
    /\ tx[t].existentes = tx[t].nuevos
    /\ AdministracionesDe(cita_farmacos, tx[t].cita) = FilasDe(tx[t].cita, tx[t].nuevos)
    /\ resp.op = "atender_cita" /\ resp.status = "ok" /\ resp.cita = tx[t].cita
    /\ peticiones = 2

-----------------------------------------------------------------------------
(* Report downloads: exportar_inventario_excel, exportar_propietario_excel *)

\* the values of ?sucursal= : absent, "todas", a word, the text of None, and
\* the ids of the branches and of a branch that does not exist
ParametrosSucursal == {"", "todas", "x", "None", "1", "2", "3"}

\* str.isdigit()
EsDigito(p) == p \in {"1", "2", "3"}

\* int()
Entero(p) == CASE p = "1" -> 1 [] p = "2" -> 2 [] p = "3" -> 3

\* str() of a sucursal_id, None included
Texto(n) == CASE n = 0 -> "None" [] n = 1 -> "1" [] n = 2 -> "2" [] n = 3 -> "3"

\* what a download answers: the rows written to the workbook, or a redirect
Informe(op, status, u, param, cs, hs, adms) ==
  [op |-> op, status |-> status, user |-> u, cita |-> 0, paciente |-> 0,
   utilizo |-> FALSE, entradas |-> <<>>, sucursal |-> param,
   citas |-> cs, historiales |-> hs, administraciones |-> adms]

Redirigido(op, status, u, param) == Informe(op, status, u, param, {}, {}, {})

\* CitaFarmaco rows seen through field_name="cita__sucursal"
PorSucursalDeCita(rows) ==
  {[fila |-> r, sucursal |-> citas[r.cita].sucursal] : r \in rows}

ExportarInventarioExcel(u, param) ==
  LET usuario == usuarios[u]
      op == "exportar_inventario_excel"
      nombrada == param \notin {"", "todas"}
  IN /\ Peticion
     /\ UNCHANGED <<personas, farmacia, clinica>>
     /\ IF ~(usuario.is_superuser \/ usuario.rol = "ADMIN")
        THEN resp' = Redirigido(op, "sin_permiso", u, param)
        ELSE IF nombrada /\ ~EsDigito(param)
        THEN resp' = Redirigido(op, "sucursal_invalida", u, param)
        ELSE IF nombrada /\ Entero(param) \notin SucursalesParaUsuario(usuario)
        THEN resp' = Redirigido(op, "otra_sucursal", u, param)
        ELSE LET sucursal_filtro ==
                   IF nombrada THEN Entero(param)
                   ELSE IF ~usuario.is_superuser THEN usuario.sucursal_id
                   ELSE 0
                 visibles == FiltrarPorSucursal(PorSucursalDeCita(cita_farmacos),
                                                usuario)
                 farmacos_qs ==
                   {v.fila : v \in {x \in visibles :
                                      sucursal_filtro # 0
                                        => x.sucursal = sucursal_filtro}}
             \* registrado__gte=inicio keeps the rows of the period
             IN \E del_periodo \in SUBSET farmacos_qs :
                  resp' = Informe(op, "ok", u, param,
                                  {r.cita : r \in del_periodo}, {}, del_periodo)

ExportarPropietarioExcel(u, propietario_id, param) ==
  LET usuario == usuarios[u]
      op == "exportar_propietario_excel"
      del_propietario(pid) ==
        pid \in DOMAIN pacientes /\ pacientes[pid].propietario = propietario_id
      informe(sucursal_filtro) ==
        LET citas_qs ==
              {c \in DOMAIN citas :
                 /\ del_propietario(citas[c].paciente)
                 /\ sucursal_filtro # 0 => citas[c].sucursal = sucursal_filtro}
            historiales_qs ==
              {h \in historiales :
                 /\ del_propietario(h.paciente)
                 /\ sucursal_filtro # 0 =>
                      IF h.cita # 0
                      THEN citas[h.cita].sucursal = sucursal_filtro
                      ELSE \E c \in DOMAIN citas :
                             /\ citas[c].paciente = h.paciente
                             /\ citas[c].sucursal = sucursal_filtro}
            farmacos_qs ==
              {r \in cita_farmacos :
                 /\ del_propietario(citas[r.cita].paciente)
                 /\ sucursal_filtro # 0 =>
                      citas[r.cita].sucursal = sucursal_filtro}
        IN IF ~usuario.is_superuser /\ usuario.sucursal_id # 0 /\ citas_qs = {}
           THEN Redirigido(op, "sin_citas", u, param)
           ELSE Informe(op, "ok", u, param, citas_qs, historiales_qs, farmacos_qs)
  IN /\ Peticion
     /\ UNCHANGED <<personas, farmacia, clinica>>
     /\ resp' =
          IF ~(usuario.is_superuser \/ usuario.rol = "ADMIN")
          THEN Redirigido(op, "sin_permiso", u, param)
          ELSE IF usuarios[propietario_id].rol # "OWNER"
          THEN Redirigido(op, "404", u, param)
          ELSE IF usuario.is_superuser
          THEN IF param \in {"", "todas"} THEN informe(0)
               ELSE IF ~EsDigito(param)
               THEN Redirigido(op, "sucursal_invalida", u, param)
               ELSE IF Entero(param) \notin SucursalIds
               THEN Redirigido(op, "sucursal_inexistente", u, param)
               ELSE informe(Entero(param))
          ELSE IF param \notin {Texto(usuario.sucursal_id), ""}
          THEN Redirigido(op, "otra_sucursal", u, param)
          ELSE informe(usuario.sucursal_id)

NextReportes ==
  \/ \E u \in UserIds, cid \in CitaIds : AtenderCita(u, cid)
  \/ \E u \in UserIds, pid \in PacienteIds, cid \in {0} \cup CitaIds :
       RegistrarHistorial(u, pid, cid)
  \/ \E u \in UserIds, param \in ParametrosSucursal :
       ExportarInventarioExcel(u, param)
  \/ \E u \in UserIds, propietario_id \in UserIds, param \in ParametrosSucursal :
       ExportarPropietarioExcel(u, propietario_id, param)

SpecReportes == Init /\ [][NextReportes]_vars

Exportaciones == {"exportar_inventario_excel", "exportar_propietario_excel"}

\* a medical record is of a branch when its appointment is, or, having no
\* appointment, when its pet has an appointment there
HistorialEnSucursal(h, sucursal) ==
  IF h.cita # 0 THEN citas[h.cita].sucursal = sucursal
  ELSE \E c \in DOMAIN citas :
         citas[c].paciente = h.paciente /\ citas[c].sucursal = sucursal

\* C12: the two downloads give a report only to a superuser or an ADMIN; the
\* appointments, medical records and drug administrations in the report of an
\* ADMIN who is not a superuser are all of that admin's own branch; and a
\* request of such an admin that names another branch is answered with a
\* redirect and no report.
C12_ReportesPorSucursal ==
  resp.op \in Exportaciones =>
    LET usuario == usuarios[resp.user]
    IN /\ resp.status = "ok" => (usuario.is_superuser \/ usuario.rol = "ADMIN")
       /\ (resp.status = "ok" /\ ~usuario.is_superuser) =>
            /\ \A c \in resp.citas :
                 citas[c].sucursal = usuario.sucursal_id
            /\ \A h \in resp.historiales :
                 HistorialEnSucursal(h, usuario.sucursal_id)
            /\ \A r \in resp.administraciones :
                 citas[r.cita].sucursal = usuario.sucursal_id
       /\ (~usuario.is_superuser /\ EsDigito(resp.sucursal)
            /\ Entero(resp.sucursal) # usuario.sucursal_id) =>
            resp.status # "ok"

-----------------------------------------------------------------------------
(* Booking: agendar_cita, agendar_cita_admin; staff: gestionar_veterinarios *)

\* the posted "fecha_hora": text that fromisoformat rejects, or a datetime
CamposFechaHora ==
  {[estado |-> "ilegible", valor |-> SinFecha]} \cup
  {[estado |-> "valido", valor |-> i] : i \in Instantes}

\* Cita.objects.create(...)
CrearCita(u, op, fila) ==
  /\ Len(citas) + 1 \in CitaIds
  /\ citas' = Append(citas, fila)
  /\ resp' = Hecho(op, u, Len(citas) + 1)
  /\ UNCHANGED <<personas, farmacia, historiales, historial_seq>>

\* a request that ends with a message and writes nothing
SinCambios(op, status) ==
  /\ resp' = Respuesta(op, status)
  /\ UNCHANGED <<personas, farmacia, clinica>>

\* a booking that takes any day, gone or to come
AgendarCitaSinHoy(u, pid, fecha, sucursal_id, hoy) ==
  IF pid \notin DOMAIN pacientes \/ pacientes[pid].propietario # u
  THEN SinCambios("agendar_cita", "404")
  ELSE IF fecha.estado = "vacio"
  THEN SinCambios("agendar_cita", "falta_fecha")
  ELSE IF sucursal_id \notin SucursalIds
  THEN SinCambios("agendar_cita", "sucursal_invalida")
  ELSE IF fecha.estado = "ilegible"
  THEN SinCambios("agendar_cita", "formato_invalido")
  ELSE CrearCita(u, "agendar_cita",
                 Cita(pid, sucursal_id, 0, "pendiente", SinFecha, fecha.valor))

\* the POST of agendar_cita: the pet, the day and the branch as posted, and
\* timezone.localdate()
AgendarCitaPost(u, pid, fecha, sucursal_id, hoy) ==
  IF pid \notin DOMAIN pacientes \/ pacientes[pid].propietario # u
  THEN SinCambios("agendar_cita", "404")
  ELSE IF fecha.estado = "vacio"
  THEN SinCambios("agendar_cita", "falta_fecha")
  ELSE IF sucursal_id \notin SucursalIds
  THEN SinCambios("agendar_cita", "sucursal_invalida")
  ELSE IF fecha.estado = "ilegible"
  THEN SinCambios("agendar_cita", "formato_invalido")
  ELSE IF fecha.valor < hoy
  THEN SinCambios("agendar_cita", "en_el_pasado")
  ELSE CrearCita(u, "agendar_cita",
                 Cita(pid, sucursal_id, 0, "pendiente", SinFecha, fecha.valor))

AgendarCita(u) ==
  /\ Peticion
  /\ IF usuarios[u].rol # "OWNER"
     THEN SinCambios("agendar_cita", "sin_permiso")
     ELSE \/ SinCambios("agendar_cita", "formulario")
          \/ \E pid \in {0} \cup PacienteIds, fecha \in CamposFecha,
                sucursal_id \in {0} \cup SucursalIds, hoy \in Fechas :
               AgendarCitaPost(u, pid, fecha, sucursal_id, hoy)

\* the branch agendar_cita_admin books in: the posted one for a superuser,
\* the own one for the others, 0 (None) when that is refused
SucursalParaAgendar(user, sucursal_id) ==
  IF user.is_superuser THEN sucursal_id
  ELSE IF user.sucursal_id = 0
          \/ (sucursal_id # 0 /\ sucursal_id # user.sucursal_id)
  THEN 0
  ELSE user.sucursal_id

AgendarCitaAdmin(u) ==
  /\ Peticion
  /\ IF usuarios[u].rol # "ADMIN"
     THEN SinCambios("agendar_cita_admin", "sin_permiso")
     ELSE \/ SinCambios("agendar_cita_admin", "formulario")
          \/ \E pid \in {0} \cup PacienteIds :
               IF pid \notin DOMAIN pacientes
               THEN SinCambios("agendar_cita_admin", "404")
               ELSE \E sucursal_id \in {0} \cup SucursalIds :
                 LET sucursal == SucursalParaAgendar(usuarios[u], sucursal_id)
                 IN IF usuarios[u].is_superuser /\ sucursal_id \notin SucursalIds
                    THEN SinCambios("agendar_cita_admin", "404_sucursal")
                    ELSE \E vet_id \in IF sucursal = 0 THEN {1} ELSE Postulados :
                      IF sucursal # 0 /\ vet_id \notin VeterinariosActivos(sucursal)
                      THEN SinCambios("agendar_cita_admin", "404_veterinario")
                      ELSE \E fecha_hora \in CamposFechaHora :
                        IF fecha_hora.estado = "ilegible"
                        THEN SinCambios("agendar_cita_admin", "formato_invalido")
                        ELSE IF sucursal = 0
                        THEN SinCambios("agendar_cita_admin", "otra_sucursal")
                        ELSE \E ahora \in Relojes :
                          IF Anterior(fecha_hora.valor, ahora)
                          THEN SinCambios("agendar_cita_admin", "en_el_pasado")
                          ELSE CrearCita(u, "agendar_cita_admin",
                                         Cita(pid, sucursal, vet_id, "programada",
                                              fecha_hora.valor,
                                              fecha_hora.valor.fecha))

GestionarVeterinarios(u) ==
  /\ Peticion
  /\ IF usuarios[u].rol # "ADMIN"
     THEN SinCambios("gestionar_veterinarios", "sin_permiso")
     ELSE \/ SinCambios("gestionar_veterinarios", "listado")
          \/ \E usuario \in {0} \cup UserIds, sucursal_id \in {0} \cup SucursalIds :
               IF usuario \notin DOMAIN usuarios
               THEN SinCambios("gestionar_veterinarios", "404")
               ELSE IF usuarios[u].is_superuser /\ sucursal_id \notin SucursalIds
               THEN SinCambios("gestionar_veterinarios", "404_sucursal")
               ELSE IF /\ ~usuarios[u].is_superuser
                       /\ \/ usuarios[u].sucursal_id = 0
                          \/ (sucursal_id # 0
                                /\ sucursal_id # usuarios[u].sucursal_id)
               THEN SinCambios("gestionar_veterinarios", "otra_sucursal")
               ELSE /\ usuarios' =
                         [usuarios EXCEPT
                            ![usuario].rol = "VET",
                            ![usuario].sucursal_id =
                               IF usuarios[u].is_superuser THEN sucursal_id
                               ELSE usuarios[u].sucursal_id]
                    /\ resp' = Hecho("gestionar_veterinarios", u, 0)
                    /\ UNCHANGED <<pacientes, propietarios, farmacia, clinica>>

\* atender_cita with a submission that names no drug
AtenderCitaSinFarmacos(u, cid) ==
  /\ Peticion
  /\ IF AtenderCitaRechazo(u, cid) # ""
     THEN /\ resp' = Respuesta("atender_cita", AtenderCitaRechazo(u, cid))
          /\ UNCHANGED <<personas, farmacia, clinica>>
     ELSE \E texto \in Textos : AtenderCitaPost(u, cid, FALSE, <<>>, texto)

\* the views that create or change appointments
GestionDeCitas ==
  \/ \E u \in UserIds : AgendarCita(u)
  \/ \E u \in UserIds : AgendarCitaAdmin(u)
  \/ \E u \in UserIds : ListarCitasAdmin(u)
  \/ \E u \in UserIds, cid \in CitaIds : AsignarVeterinarioCita(u, cid)
  \/ \E u \in UserIds : AsignarVeterinarioCitas(u)
  \/ \E u \in UserIds, cid \in CitaIds : AtenderCitaSinFarmacos(u, cid)
  \/ \E u \in UserIds, pid \in PacienteIds, cid \in CitaIds :
       RegistrarHistorial(u, pid, cid)

NextAgenda == peticiones < MaxGestiones /\ GestionDeCitas

SpecAgenda == Init /\ [][NextAgenda]_vars

\* C17: in every state reached through the views, an appointment that is
\* 'programada' has a veterinarian and a fecha_hora, and its fecha_solicitada
\* is the date of its fecha_hora; an appointment that is 'pendiente' has
\* neither a veterinarian nor a fecha_hora.
C17_EstadoDeCita ==
  \A c \in DOMAIN citas :
    /\ citas[c].estado = "programada" =>
         /\ citas[c].veterinario # 0
         /\ citas[c].fecha_hora # SinFecha
         /\ citas[c].fecha_solicitada = citas[c].fecha_hora.fecha
    /\ citas[c].estado = "pendiente" =>
         /\ citas[c].veterinario = 0
         /\ citas[c].fecha_hora = SinFecha

\* the appointment that began 'programada' was reopened and is 'pendiente',
\* and the one that began 'pendiente' was given a veterinarian and an hour
C17_Witness ==
  /\ citas[1].estado = "pendiente"
  /\ citas[2].estado = "programada"

\* C24: agendar_cita creates an appointment only for a requester with rol
\* OWNER, a pet of the requester, a branch that exists and a day that is well
\* formed and not before today; the appointment created is 'pendiente', has
\* no veterinarian and no fecha_hora, and nothing else changes; a request
\* that fails any of the conditions creates no appointment.
C24_ReservaDelPropietario ==
  [][resp'.op = "agendar_cita" =>
       IF resp'.status # "ok"
       THEN UNCHANGED citas
       ELSE LET u == resp'.user
                nueva == citas'[Len(citas')]
            IN /\ usuarios[u].rol = "OWNER"
               /\ citas' = Append(citas, nueva)
               /\ nueva.estado = "pendiente"
               /\ nueva.veterinario = 0 /\ nueva.fecha_hora = SinFecha
               /\ nueva.paciente \in DOMAIN pacientes
               /\ pacientes[nueva.paciente].propietario = u
               /\ nueva.sucursal \in SucursalIds
               /\ nueva.fecha_solicitada \in Fechas
               \* no post that fails a condition makes this step
               /\ \A pid \in {0} \cup PacienteIds, fecha \in CamposFecha,
                     sucursal_id \in {0} \cup SucursalIds, hoy \in Fechas :
                    (\/ pid \notin DOMAIN pacientes
                     \/ pacientes[pid].propietario # u
                     \/ sucursal_id \notin SucursalIds
                     \/ fecha.estado # "valido"
                     \/ fecha.valor < hoy) =>
                      ~AgendarCitaPost(u, pid, fecha, sucursal_id, hoy)]_vars

\* an owner booked a visit, which is waiting for its hour, and then asked
\* for a day that is gone and got none
C24_Witness ==
  /\ resp.op = "agendar_cita" /\ resp.status = "en_el_pasado"
  /\ Len(citas) = 3
  /\ citas[3].estado = "pendiente" /\ citas[3].veterinario = 0

\* the same views together with gestionar_veterinarios
NextPlantilla ==
  /\ peticiones < MaxGestiones
  /\ \/ GestionDeCitas
     \/ \E u \in UserIds : GestionarVeterinarios(u)

SpecPlantilla == Init /\ [][NextPlantilla]_vars

\* C20: in every state reached through the views, gestionar_veterinarios
\* among them, an appointment that has a veterinarian is of the branch of
\* that veterinarian, so that atender_cita does not turn the veterinarian
\* away from the own appointment for its branch.
C20_VeterinarioDeLaSucursal ==
  \A c \in DOMAIN citas :
    citas[c].veterinario # 0 =>
      /\ usuarios[citas[c].veterinario].sucursal_id = citas[c].sucursal
      /\ AtenderCitaRechazo(citas[c].veterinario, c) # "otra_sucursal"

\* C21: a gestionar_veterinarios request of an ADMIN who is not a superuser
\* changes only a user who was not a VET and who was of the admin's own
\* branch or of none, and leaves that user a VET of the admin's own branch;
\* users of other branches stay as they were, and an ADMIN without a branch
\* changes nobody.
C21_PromocionPorSucursal ==
  [][(resp'.op = "gestionar_veterinarios" /\ resp'.user # 0
        /\ ~usuarios[resp'.user].is_superuser) =>
       LET admin == usuarios[resp'.user]
       IN /\ admin.sucursal_id = 0 => usuarios' = usuarios
          /\ \A x \in DOMAIN usuarios :
               usuarios'[x] # usuarios[x] =>
                 /\ usuarios[x].rol # "VET"
                 /\ usuarios[x].sucursal_id \in {0, admin.sucursal_id}
                 /\ usuarios'[x].rol = "VET"
                 /\ usuarios'[x].sucursal_id = admin.sucursal_id]_vars

-----------------------------------------------------------------------------
(* atender_cita between the administrative actions on appointments *)

NextCiclo ==
  \/ \E u \in UserIds, cid \in CitaIds : AtenderCita(u, cid)
  \/ \E u \in UserIds : ListarCitasAdmin(u)

SpecCiclo == Init /\ [][NextCiclo]_vars

\* C23: a listar_citas_admin request, 'cancelar', 'marcar_atendida' and
\* 'reactivar' among them, changes no stock, no CitaFarmaco row and no
\* HistorialMedico row; so the usage recorded for an appointment is still
\* there after it was cancelled or reopened, and a later atender_cita
\* submission with drugs for it moves each stock by the quantity asked minus
\* the quantity that was recorded.
C23_DatosClinicosIntactos ==
  /\ [][resp'.op = "listar_citas_admin" =>
          UNCHANGED <<farmacos, farmaco_seq, cita_farmacos, historiales,
                      historial_seq>>]_vars
  /\ [][(resp'.op = "atender_cita" /\ resp'.status = "ok" /\ resp'.utilizo) =>
          \A f \in DOMAIN farmacos :
            StockDe(farmacos', f) =
              StockDe(farmacos, f)
                - (CantidadPedida(resp'.entradas, f)
                     - CantidadRegistrada(cita_farmacos, resp'.cita, f))]_vars

\* an appointment that was completed with a drug and then reopened: it is
\* 'pendiente' and the usage recorded for it is still there
C23_Witness ==
  /\ resp.op = "listar_citas_admin" /\ resp.status = "ok"
  /\ resp.cita \in DOMAIN citas
  /\ citas[resp.cita].estado = "pendiente"
  /\ AdministracionesDe(cita_farmacos, resp.cita) # {}
  /\ HistorialDeCita(historiales, resp.cita) # {}

-----------------------------------------------------------------------------
(* transferir_mascota, Core/views.py, and TransferirMascotaForm, Core/forms.py *)

\* what can be typed into a password field: nothing, or the password of one
\* of the two pet owners
Claves == {"", "clave7", "clave8"}

\* the password a user logs in with
ClaveDe(u) == IF u = 7 THEN "clave7" ELSE "clave8"

\* Propietario.objects.filter(user=u)
PropietarioDe(u) == {r \in propietarios : r.user = u}

\* a form that accepts any pair of equal passwords
FormularioSinClave(u, propietario, mascota, nuevo, pwd1, pwd2) ==
  /\ mascota \in PacienteIds
  /\ pacientes[mascota].propietario = propietario.user
  /\ nuevo \in {r.id : r \in propietarios} \ {propietario.id}
  /\ pwd1 # "" /\ pwd2 # ""
  /\ pwd1 = pwd2

\* TransferirMascotaForm.is_valid: the pet is one of the requester's, the
\* destination is another Propietario, both passwords are given, are equal
\* and are the user's password
TransferirMascotaFormValido(u, propietario, mascota, nuevo, pwd1, pwd2) ==
  /\ mascota \in PacienteIds
  /\ pacientes[mascota].propietario = propietario.user
  /\ nuevo \in {r.id : r \in propietarios} \ {propietario.id}
  /\ nuevo # propietario.id
  /\ pwd1 # "" /\ pwd2 # ""
  /\ pwd1 = pwd2
  /\ pwd1 = ClaveDe(u)

\* the answer of transferir_mascota to a valid submission: the pet and the
\* user of the destination profile
Transferencia(status, u, mascota, destino) ==
  [op |-> "transferir_mascota", status |-> status, user |-> u, cita |-> 0,
   paciente |-> mascota, utilizo |-> FALSE, entradas |-> <<>>,
   destino |-> destino]

\* a view that transfers on the first valid submission
TransferirSinConfirmar(u, mascota, nuevo, pwd1, pwd2, confirmado) ==
  /\ Peticion
  /\ UNCHANGED <<usuarios, propietarios, farmacia, clinica>>
  /\ IF usuarios[u].rol # "OWNER" \/ PropietarioDe(u) = {}
              \/ ~TransferirMascotaFormValido(u, CHOOSE r \in PropietarioDe(u) : TRUE,
                                              mascota, nuevo, pwd1, pwd2)
     THEN /\ resp' = Respuesta("transferir_mascota", "formulario_invalido")
          /\ UNCHANGED pacientes
     ELSE LET destino == CHOOSE r \in propietarios : r.id = nuevo
          IN /\ pacientes' = [pacientes EXCEPT ![mascota].propietario = destino.user]
             /\ resp' = Transferencia("ok", u, mascota, destino.user)

\* transferir_mascota, POST
TransferirMascotaPost(u, mascota, nuevo, pwd1, pwd2, confirmado) ==
  /\ Peticion
  /\ UNCHANGED <<usuarios, propietarios, farmacia, clinica>>
  /\ IF usuarios[u].rol # "OWNER"
     THEN /\ resp' = Respuesta("transferir_mascota", "sin_permiso")
          /\ UNCHANGED pacientes
     ELSE IF PropietarioDe(u) = {}
     THEN /\ resp' = Respuesta("transferir_mascota", "404")
          /\ UNCHANGED pacientes
     ELSE LET propietario == CHOOSE r \in PropietarioDe(u) : TRUE
          IN IF ~TransferirMascotaFormValido(u, propietario, mascota, nuevo, pwd1, pwd2)
             THEN /\ resp' = Respuesta("transferir_mascota", "formulario_invalido")
                  /\ UNCHANGED pacientes
             ELSE LET destino == CHOOSE r \in propietarios : r.id = nuevo
                  IN IF ~confirmado
                     THEN /\ resp' = Transferencia("confirmacion", u, mascota, destino.user)
                          /\ UNCHANGED pacientes
                     ELSE /\ pacientes' =
                               [pacientes EXCEPT ![mascota].propietario = destino.user]
                          /\ resp' = Transferencia("ok", u, mascota, destino.user)

\* the Propietario ids a submission can name: none, the two profiles, and one
\* that does not exist
DestinosPosibles == 0 .. 3

\* transferir_mascota: the empty form on GET, the submission on POST
TransferirMascota(u) ==
  \/ /\ Peticion
     /\ UNCHANGED <<personas, farmacia, clinica>>
     /\ resp' = Respuesta("transferir_mascota",
                          IF usuarios[u].rol # "OWNER" THEN "sin_permiso"
                          ELSE IF PropietarioDe(u) = {} THEN "404"
                          ELSE "formulario")
  \/ \E mascota \in {0} \cup PacienteIds, nuevo \in DestinosPosibles,
        pwd1 \in Claves, pwd2 \in Claves, confirmado \in BOOLEAN :
       TransferirMascotaPost(u, mascota, nuevo, pwd1, pwd2, confirmado)

NextTransferencias ==
  /\ peticiones < MaxGestiones
  /\ \/ \E u \in UserIds : TransferirMascota(u)
     \/ \E u \in UserIds : GestionarVeterinarios(u)

SpecTransferencias == Init /\ [][NextTransferencias]_vars

\* C25: a transferir_mascota request changes the owner of a pet only when the
\* requester has rol OWNER, the pet belonged to the requester, the destination
\* is the user of an existing Propietario other than the requester's, and no
\* submission whose two passwords differ or are not the requester's password
\* produces the step; it changes no other pet; and every pet always has one
\* owner, who has a Propietario row.
C25_TransferenciaAutorizada ==
  /\ [](\A p \in PacienteIds :
          pacientes[p].propietario \in {r.user : r \in propietarios})
  /\ [][resp'.op = "transferir_mascota" =>
          IF resp'.status # "ok" THEN pacientes' = pacientes
          ELSE LET u == resp'.user
                   pid == resp'.paciente
                   d == resp'.destino
               IN /\ usuarios[u].rol = "OWNER"
                  /\ pid \in PacienteIds
                  /\ pacientes[pid].propietario = u
                  /\ d # u
                  /\ d \in {r.user : r \in propietarios}
                  /\ pacientes' = [pacientes EXCEPT ![pid].propietario = d]
                  /\ \A p \in PacienteIds :
                       pacientes'[p] # pacientes[p] => pacientes[p].propietario = u
                  /\ \A nuevo \in DestinosPosibles, pwd1 \in Claves, pwd2 \in Claves,
                        confirmado \in BOOLEAN :
                       (pwd1 # pwd2 \/ pwd1 # ClaveDe(u)) =>
                         ~TransferirMascotaPost(u, pid, nuevo, pwd1, pwd2, confirmado)]_vars

\* a pet was transferred to the other owner, who then transferred it back
C25_Witness ==
  /\ resp.op = "transferir_mascota" /\ resp.status = "ok"
  /\ resp.user = 8 /\ resp.paciente = 1 /\ resp.destino = 7
  /\ pacientes[1].propietario = 7

\* C26: a transferir_mascota request that changes an owner is never produced
\* by a submission without confirmado = '1'; a valid submission without it
\* changes no owner and answers with the confirmation of the requester's pet
\* and of a destination that is another existing Propietario.
C26_ConfirmacionPrevia ==
  [][resp'.op = "transferir_mascota" =>
       /\ pacientes' # pacientes =>
            /\ resp'.status = "ok"
            /\ \A nuevo \in DestinosPosibles, pwd1 \in Claves, pwd2 \in Claves :
                 ~TransferirMascotaPost(resp'.user, resp'.paciente, nuevo,
                                        pwd1, pwd2, FALSE)
       /\ resp'.status = "confirmacion" =>
            /\ pacientes' = pacientes
            /\ resp'.paciente \in PacienteIds
            /\ pacientes[resp'.paciente].propietario = resp'.user
            /\ resp'.destino # resp'.user
            /\ resp'.destino \in {r.user : r \in propietarios}
       /\ \A u \in UserIds, mascota \in PacienteIds, nuevo \in DestinosPosibles :
            (/\ usuarios[u].rol = "OWNER"
             /\ pacientes[mascota].propietario = u
             /\ \E r \in propietarios : r.id = nuevo /\ r.user # u
             /\ TransferirMascotaPost(u, mascota, nuevo, ClaveDe(u), ClaveDe(u), FALSE))
              => resp'.status = "confirmacion" /\ pacientes' = pacientes]_vars

\* the confirmation of a transfer is on screen and the pet is still the
\* requester's
C26_Witness ==
  /\ resp.op = "transferir_mascota" /\ resp.status = "confirmacion"
  /\ resp.paciente = 2 /\ resp.user = 8 /\ resp.destino = 7
  /\ pacientes[2].propietario = 8

-----------------------------------------------------------------------------
(* The post_save receiver of User, Core/signals.py, and the views that save
   a User: registro_propietario, crear_propietario_admin and
   configuracion_perfil, Core/views.py *)

\* a lookup that inserts a row whether or not the user has one
CrearPropietario(rows, u) ==
  rows \cup {[id |-> Cardinality(rows) + 1, user |-> u]}

\* Propietario.objects.get_or_create(user=u): the row of the user, inserted
\* when there is none
GetOrCreatePropietario(rows, u) ==
  IF \E r \in rows : r.user = u THEN rows
  ELSE rows \cup {[id |-> Cardinality(rows) + 1, user |-> u]}

\* Propietario.objects.update_or_create(user=u, defaults=...): the telephone
\* and the address of the row are not part of the state
UpdateOrCreatePropietario(rows, u) ==
  IF \E r \in rows : r.user = u THEN rows
  ELSE rows \cup {[id |-> Cardinality(rows) + 1, user |-> u]}

\* bootstrap_related_profiles, run after every save of the user u of us
BootstrapRelatedProfiles(rows, us, u) ==
  IF us[u].rol = "OWNER" THEN GetOrCreatePropietario(rows, u) ELSE rows

\* User.objects.create_user(..., rol=rol): the new row takes the next id
CreateUser(us, rol) == Append(us, Usuario(rol, 0, FALSE))

\* registro_propietario, POST: username is 0 when it is left blank, the id of
\* the user who has that name, or Len(usuarios) + 1 for a name nobody has;
\* duplicado says that the email or the telephone belongs to another account
RegistroPropietario ==
  /\ Peticion
  /\ UNCHANGED <<pacientes, farmacia, clinica>>
  /\ \E username \in {0, 7, Len(usuarios) + 1}, pwd1 \in Claves, pwd2 \in Claves,
        duplicado \in BOOLEAN :
       IF pwd1 # pwd2 \/ username \in DOMAIN usuarios \/ duplicado
       THEN /\ resp' = Respuesta("registro_propietario", "errores")
            /\ UNCHANGED <<usuarios, propietarios>>
       ELSE IF username = 0
       THEN /\ resp' = Respuesta("registro_propietario", "500")
            /\ UNCHANGED <<usuarios, propietarios>>
       ELSE LET us == CreateUser(usuarios, "OWNER")
                user == Len(us)
            IN /\ usuarios' = us
               /\ propietarios' =
                    UpdateOrCreatePropietario(
                      BootstrapRelatedProfiles(propietarios, us, user), user)
               /\ resp' = Hecho("registro_propietario", user, 0)

\* crear_propietario_admin, POST: the user is saved twice, by create_user and
\* by save(update_fields=["telefono", "direccion"])
CrearPropietarioAdmin(u) ==
  /\ Peticion
  /\ UNCHANGED <<pacientes, farmacia, clinica>>
  /\ IF usuarios[u].rol # "ADMIN"
     THEN /\ resp' = Respuesta("crear_propietario_admin", "sin_permiso")
          /\ UNCHANGED <<usuarios, propietarios>>
     ELSE \E username \in {0, 7, Len(usuarios) + 1} :
            IF username \in DOMAIN usuarios
            THEN /\ resp' = Respuesta("crear_propietario_admin", "ya_existe")
                 /\ UNCHANGED <<usuarios, propietarios>>
            ELSE IF username = 0
            THEN /\ resp' = Respuesta("crear_propietario_admin", "500")
                 /\ UNCHANGED <<usuarios, propietarios>>
            ELSE LET us == CreateUser(usuarios, "OWNER")
                     user == Len(us)
                     creado == BootstrapRelatedProfiles(propietarios, us, user)
                     guardado == BootstrapRelatedProfiles(creado, us, user)
                 IN /\ usuarios' = us
                    /\ propietarios' = GetOrCreatePropietario(guardado, user)
                    /\ resp' = Hecho("crear_propietario_admin", u, 0)

\* configuracion_perfil: the form on GET or with errors, and on a valid POST
\* user.save() followed by the update of the profile
ConfiguracionPerfil(u) ==
  /\ Peticion
  /\ UNCHANGED <<usuarios, pacientes, farmacia, clinica>>
  /\ \E valido \in BOOLEAN :
       IF ~valido
       THEN /\ resp' = Respuesta("configuracion_perfil", "formulario")
            /\ UNCHANGED propietarios
       ELSE LET guardado == BootstrapRelatedProfiles(propietarios, usuarios, u)
            IN /\ propietarios' =
                    IF PropietarioDe(u) # {} THEN guardado
                    ELSE IF usuarios[u].rol = "OWNER"
                    THEN UpdateOrCreatePropietario(guardado, u)
                    ELSE guardado
               /\ resp' = Hecho("configuracion_perfil", u, 0)

NextPerfiles ==
  \/ RegistroPropietario
  \/ \E u \in UserIds : CrearPropietarioAdmin(u)
  \/ \E u \in DOMAIN usuarios : ConfiguracionPerfil(u)
  \/ \E u \in UserIds : GestionarVeterinarios(u)

SpecPerfiles == Init /\ [][NextPerfiles]_vars

\* C27: every user whose rol is OWNER has exactly one Propietario row, after
\* registration, after the creation by an administrator and after a profile
\* update; no user has two rows, and a save of a user who has a row adds none.
C27_PerfilDePropietario ==
  /\ [](\A x \in DOMAIN usuarios :
          /\ Cardinality({r \in propietarios : r.user = x}) <= 1
          /\ usuarios[x].rol = "OWNER" =>
               Cardinality({r \in propietarios : r.user = x}) = 1)
  /\ [][\A x \in DOMAIN usuarios :
          {r \in propietarios : r.user = x} # {} =>
            {r \in propietarios' : r.user = x} = {r \in propietarios : r.user = x}]_vars

\* two owners were added, each has a profile, and the first of them has just
\* saved a profile update
C27_Witness ==
  /\ Len(usuarios) = Len(UsuariosIniciales) + 2
  /\ resp.op = "configuracion_perfil" /\ resp.status = "ok"
  /\ resp.user = Len(UsuariosIniciales) + 1
  /\ Cardinality(propietarios) = Cardinality(PropietariosIniciales) + 2

=============================================================================
